---- MODULE Spec2Model ----
(***************************************************************************)
(* A model of the choreography core of hue-mcp: the sequence scheduler,    *)
(* the SSE event consumer, the batch executor and the scene cache.         *)
(* Each subsystem has its own specification over its own variables; the    *)
(* variables of the other subsystems stay at their initial values.         *)
(***************************************************************************)
EXTENDS Integers, Sequences, FiniteSets, TLC

VARIABLES
    \* ---- scheduler (package scheduler) ----
    seqs,          \* the Sequence objects allocated so far, by allocation number
    sequences,     \* Scheduler.sequences: sequence id -> allocation number (0: absent)
    task,          \* the runSequence goroutine of each Sequence object
    ctxDone,       \* Scheduler.ctx has been cancelled
    panicked,      \* the process has panicked (close of a closed channel)
    schedResult,   \* what the last scheduler call returned
    \* ---- event consumer (EventManager, EventStream) ----
    streaming,     \* EventManager.streaming
    emStream,      \* EventManager.stream: the EventStream it points to (0: nil)
    recentEvents,  \* EventManager.recentEvents, the ring buffer
    es,            \* the EventStream objects: channels, done, reconnect, context
    conn,          \* the connect goroutine of each EventStream
    filt,          \* the FilterEvents goroutine of each EventStream and its channel
    proc,          \* the processEvents goroutine started with each EventStream
    arrived,       \* number of events the bridge has delivered (the newest event's id)
    received,      \* history: the events handed to processEvent, in order
    dropped,       \* history: ids of the events processEvent has discarded
    stored,        \* history: the events handed to storeEvent, in order
    evPanicked,    \* the process has panicked in the event consumer
    \* ---- scene cache (SceneCache) ----
    cached,        \* the CachedScene objects allocated so far, by allocation number
    scenes,        \* SceneCache.scenes: scene name -> allocation number (0: absent)
    muReaders,     \* number of read locks held on SceneCache.mu
    getter,        \* the callers of GetScene and where each one is
    nGets,         \* number of GetScene calls started
    counted,       \* history: per name, the successful gets since its last save
    listing,       \* what the last list_cached_scenes call showed
    \* ---- batch executor ----
    batch,         \* the batch of the last batch_commands / recall_scene call
    \* ---- entertainment streaming ----
    streamers,     \* the EntertainmentStreamer objects, their creating handler and loop
    activeStreamers, \* activeStreamers: configuration id -> streamer (0: absent)
    stopper,       \* the stop_streaming call in progress
    sender,        \* the send_colors call in progress
    packets,       \* history: per streamer, the sequence numbers written to its socket
    \* ---- effects and setters ----
    effect,        \* the tool call that is followed and the sequence it started
    wire,          \* history: the waits and the client calls of that tool call, in order
    \* ---- CreateGroupEffect ----
    groupify,      \* a sequence, the sequence CreateGroupEffect made of it, their maps
    \* ---- command line (package cmd) ----
    lights,        \* the lights of the bridge, in the order GetLights returns them
    cli,           \* the last command run and what it did
    \* ---- one streaming session, its clock and its frames ----
    session,       \* an EntertainmentStreamer, its ticker and the frames it has sent
    \* ---- GetSequences ----
    snapshot,      \* the map the last GetSequences call returned
    \* ---- bridge client (package client) ----
    requests,      \* history: each client operation called, its response, its result
    \* ---- rooms and zones of the bridge ----
    groups,        \* the rooms and the zones of the bridge, each with its services
    \* ---- group membership (AddLightToGroup) ----
    membership     \* the children of a room and of a zone on the bridge, and the last call

schedVars == <<seqs, sequences, task, ctxDone, panicked, schedResult>>

evVars == <<streaming, emStream, recentEvents, es, conn, filt, proc, arrived,
            received, dropped, stored, evPanicked>>

cacheVars == <<cached, scenes, muReaders, getter, nGets, counted, listing>>

batchVars == <<batch>>

entVars == <<streamers, activeStreamers, stopper, sender, packets>>

fxVars == <<effect, wire>>

gfVars == <<groupify>>

cliVars == <<lights, cli>>

ssVars == <<session>>

snapVars == <<snapshot>>

httpVars == <<requests>>

grpVars == <<groups>>

memVars == <<membership>>

vars == <<schedVars, evVars, cacheVars, batchVars, entVars, fxVars, gfVars, cliVars,
          ssVars,
          snapVars,
          httpVars,
          grpVars,
          memVars>>

\* the variables of the other subsystems
outsideSched == <<evVars, cacheVars, batchVars, entVars, fxVars, gfVars, cliVars, ssVars,
    snapVars,
    httpVars,
    grpVars,
    memVars>>

outsideMembers == <<schedVars, evVars, cacheVars, batchVars, entVars, fxVars, gfVars,
    cliVars, ssVars, snapVars, httpVars, grpVars>>

outsideClient == <<schedVars, evVars, cacheVars, batchVars, entVars, fxVars, gfVars,
    cliVars, ssVars, snapVars,
    grpVars,
    memVars>>

outsideSched_Snapshot == <<evVars, cacheVars, batchVars, entVars, fxVars, gfVars, cliVars,
    ssVars,
    httpVars,
    grpVars,
    memVars>>

outsideEvents == <<schedVars, cacheVars, batchVars, entVars, fxVars, gfVars, cliVars, ssVars,
    snapVars,
    httpVars,
    grpVars,
    memVars>>

outsideCache == <<schedVars, evVars, batchVars, entVars, fxVars, gfVars, cliVars, ssVars,
    snapVars,
    httpVars,
    grpVars,
    memVars>>

outsideBatch == <<schedVars, evVars, entVars, fxVars, gfVars, cliVars, ssVars,
    snapVars,
    httpVars,
    grpVars,
    memVars>>

outsideEnt == <<schedVars, evVars, cacheVars, batchVars, fxVars, gfVars, cliVars, ssVars,
    snapVars,
    httpVars,
    grpVars,
    memVars>>

outsideEffects == <<schedVars, evVars, cacheVars, batchVars, entVars, gfVars, cliVars, ssVars,
    snapVars,
    httpVars,
    grpVars,
    memVars>>

outsideGroupify == <<schedVars, evVars, cacheVars, batchVars, entVars, fxVars, cliVars, ssVars,
    snapVars,
    httpVars,
    grpVars,
    memVars>>

outsideCli == <<schedVars, evVars, cacheVars, batchVars, entVars, fxVars, gfVars, ssVars,
    snapVars,
    httpVars,
    grpVars,
    memVars>>

outsideSession == <<schedVars, evVars, cacheVars, batchVars, entVars, fxVars, gfVars,
                    cliVars,
    snapVars,
    httpVars,
    grpVars,
    memVars>>

(***************************************************************************)
(* Bounds and input sets                                                   *)
(***************************************************************************)
MaxSeqs == 2

\* EventStream objects (calls of StreamEvents that start a stream)
MaxStreams == 2

\* events the bridge delivers
MaxArrivals == 3

\* times a connection attempt or an open connection ends
MaxEnds == 2

\* capacity of EventStream.events and of the FilterEvents channel; stands for
\* the 100 of the source (test_server.sh:267, :410)
ChanCap == 2

\* capacity of EventStream.errors; stands for the 10 of the source (test_server.sh:268)
ErrCap == 1

\* EventManager.maxEvents; stands for the 1000 of the source (part_009:33)
maxEvents == 2

\* events handed to storeEvent when the buffer is followed on its own
MaxStored == 6

\* HandleBatchCommands: delayMs := 100
DefaultDelayMs == 100

\* HandleGetRecentEvents: limit := 50
DefaultLimit == 50

SeqIds == {"a"}

Objs == 1..MaxSeqs

\* Command.Params, a map[string]interface{}: one entry per key, with the
\* dynamic type of the value
FloatParam(key, n) == {[key |-> key, type |-> "float64", num |-> n, str |-> ""]}

IntParam(key, n) == {[key |-> key, type |-> "int", num |-> n, str |-> ""]}

StringParam(key, v) == {[key |-> key, type |-> "string", num |-> 0, str |-> v]}

\* the Command struct (scene_cache.go:237-243); Delay is in milliseconds
Command(type, action, target, params, delay) ==
    [Type |-> type, Action |-> action, Target |-> target, Params |-> params,
     Delay |-> delay]

CmdColor == Command("light", "color", "L", StringParam("color", "#FF0000"), 1)

\* a command of a kind executeCommandSync does not know
CmdSensor == Command("sensor", "on", "L", {}, 0)

CommandLists == {<<>>, <<CmdSensor, CmdColor>>}

\* flash_count of flash_effect goes from 0 to MaxFlashCount
MaxFlashCount == 2

\* changes made to a sequence or to its clone after CreateGroupEffect
MaxChanges == 2

\* lights on the bridge
MaxLights == 2

\* operations of the bridge client in one behaviour
MaxRequests == 2

\* rooms on the bridge
MaxRooms == 2

\* zones on the bridge
MaxZones == 1

\* children a room or a zone holds
MaxChildren == 3

\* frames one session sends
MaxFrames == 3

\* NewEntertainmentStreamer: updateRate: 50 * time.Millisecond
DefaultUpdateRate == 50

\* CachedScene objects alive at one time
MaxScenes == 2

\* concurrent callers of GetScene
MaxGetters == 2

\* GetScene calls in one behaviour
MaxGets == 2

\* commands in one batch
MaxBatchLen == 2

\* EntertainmentStreamer objects created in one behaviour
MaxStreamers == 2

\* packets one streamer builds
MaxPackets == 2

\* EntertainmentStreamer.sequence is a uint8
SequenceMod == 256

(***************************************************************************)
(* The scene cache: src/mcp/scene_cache.go                                 *)
(*                                                                         *)
(* SaveScene, DeleteScene and ListScenes hold SceneCache.mu from their     *)
(* first statement to their return and never block while holding it, so    *)
(* each is one step that needs the lock to be free.  GetScene gives the    *)
(* read lock up before it takes the write lock, so it is several steps.    *)
(***************************************************************************)
SceneObjs == 1..MaxScenes

Getters == 1..MaxGetters

SceneNames == {"go"}

NameInputs == {"", "go"}

CmdLightOn == [action |-> "light_on", value |-> ""]

CmdBri150 == [action |-> "light_brightness", value |-> "150"]

CmdColorRed == [action |-> "light_color", value |-> "RED"]

\* the command lists given to SaveScene
SceneLists == {<<>>, <<CmdLightOn>>, <<CmdBri150, CmdLightOn>>}

NoScene == [alloc |-> FALSE, Name |-> "", Commands |-> <<>>, DelayMs |-> 0,
            UsageCount |-> 0]

\* caller: the handler that called GetScene; stale: a SaveScene of the name has
\* completed since the call began
NoGetter ==
    [pc |-> "idle", name |-> "", scene |-> 0, caller |-> "", stale |-> FALSE]

GetCallers == {"recall_scene", "export_scene"}

NewSceneCache ==
    /\ cached = [o \in SceneObjs |-> NoScene]
    /\ scenes = [n \in SceneNames |-> 0]
    /\ muReaders = 0
    /\ getter = [g \in Getters |-> NoGetter]
    /\ nGets = 0
    /\ counted = [n \in SceneNames |-> 0]
    /\ listing = <<>>

\* sc.scenes[name]
Lookup(sc, name) == IF name \in SceneNames THEN sc[name] ELSE 0

\* an object the map or a caller of GetScene still points to
Reachable(o, sc, gt) ==
    \/ \E n \in SceneNames : sc[n] = o
    \/ \E g \in Getters : gt[g].pc # "idle" /\ gt[g].scene = o

\* the garbage collector: an object nothing points to is gone
Collect(h, sc, gt) ==
    [o \in SceneObjs |-> IF Reachable(o, sc, gt) THEN h[o] ELSE NoScene]

FreeScene == CHOOSE o \in SceneObjs : ~cached[o].alloc

MuFree == muReaders = 0

SaveSceneError(name, commands) ==
    IF name = "" THEN "scene name cannot be empty"
    ELSE IF Len(commands) = 0 THEN "scene must have at least one command"
    ELSE ""

\* the map and the objects after SaveScene has stored the scene
ScenesAfterSave(name) == [scenes EXCEPT ![name] = FreeScene]

\* UsageCount: 0 in the CachedScene literal of SaveScene
InitialUsageCount_KeepOld(name) ==
    IF Lookup(scenes, name) = 0 THEN 0 ELSE cached[scenes[name]].UsageCount

InitialUsageCount(name) == 0

CachedAfterSave_DefaultDelay(name, commands, delayMs) ==
    Collect([cached EXCEPT ![FreeScene] =
                 [alloc |-> TRUE, Name |-> name, Commands |-> commands,
                  DelayMs |-> DefaultDelayMs,
                  UsageCount |-> InitialUsageCount(name)]],
            ScenesAfterSave(name), getter)

CachedAfterSave(name, commands, delayMs) ==
    Collect([cached EXCEPT ![FreeScene] =
                 [alloc |-> TRUE, Name |-> name, Commands |-> commands,
                  DelayMs |-> delayMs,
                  UsageCount |-> InitialUsageCount(name)]],
            ScenesAfterSave(name), getter)

\* history: the calls of GetScene(name) in progress began before this save
GettersAfterSave(name) ==
    [g \in Getters |->
        IF getter[g].pc # "idle" /\ getter[g].name = name
        THEN [getter[g] EXCEPT !.stale = TRUE]
        ELSE getter[g]]

SaveScene(name, commands, delayMs) ==
    /\ MuFree
    /\ IF SaveSceneError(name, commands) # ""
       THEN UNCHANGED <<cached, scenes>>
       ELSE /\ \E o \in SceneObjs : ~cached[o].alloc
            /\ scenes' = ScenesAfterSave(name)
            /\ cached' = CachedAfterSave(name, commands, delayMs)
    /\ IF SaveSceneError(name, commands) # ""
       THEN UNCHANGED <<getter, counted>>
       ELSE /\ getter' = GettersAfterSave(name)
            /\ counted' = [counted EXCEPT ![name] = 0]
    /\ UNCHANGED <<muReaders, nGets, listing>>
    /\ UNCHANGED outsideCache

DeleteScene(name) ==
    /\ MuFree
    /\ IF Lookup(scenes, name) = 0
       THEN UNCHANGED <<cached, scenes>>
       ELSE /\ scenes' = [scenes EXCEPT ![name] = 0]
            /\ cached' = Collect(cached, scenes', getter)
    /\ UNCHANGED <<muReaders, getter, nGets, counted, listing>>
    /\ UNCHANGED outsideCache

\* the scenes ListScenes returns
ListScenes == {scenes[n] : n \in SceneNames} \ {0}

\* the lines of list_cached_scenes: the scenes, most used first
SortedByUsage(objs) ==
    CHOOSE q \in [1..Cardinality(objs) -> objs] :
        /\ \A o \in objs : \E k \in DOMAIN q : q[k] = o
        /\ \A j, k \in DOMAIN q :
              j < k => cached[q[j]].UsageCount >= cached[q[k]].UsageCount

HandleListCachedScenes ==
    /\ listing' = [k \in 1..Cardinality(ListScenes) |->
                      [Name |-> cached[SortedByUsage(ListScenes)[k]].Name,
                       Used |-> cached[SortedByUsage(ListScenes)[k]].UsageCount]]
    /\ UNCHANGED <<cached, scenes, muReaders, getter, nGets, counted>>
    /\ UNCHANGED outsideCache

\* sc.mu.RLock(); scene, exists := sc.scenes[name]
GetSceneLookup(g, name, caller) ==
    /\ getter[g].pc = "idle"
    /\ nGets < MaxGets
    /\ nGets' = nGets + 1
    /\ muReaders' = muReaders + 1
    /\ getter' = [getter EXCEPT ![g] =
                     [pc |-> "rlocked", name |-> name,
                      scene |-> Lookup(scenes, name),
                      caller |-> caller, stale |-> FALSE]]
    /\ UNCHANGED <<cached, scenes, counted, listing>>
    /\ UNCHANGED outsideCache

\* not found: return with the deferred RUnlock; found: sc.mu.RUnlock()
GetSceneRUnlock(g) ==
    /\ getter[g].pc = "rlocked"
    /\ muReaders' = muReaders - 1
    /\ getter' = [getter EXCEPT ![g] =
                     IF getter[g].scene = 0
                     THEN NoGetter
                     ELSE [@ EXCEPT !.pc = "lock"]]
    /\ UNCHANGED <<cached, scenes, nGets, counted, listing>>
    /\ UNCHANGED outsideCache

\* sc.mu.Lock(); scene.UsageCount++; sc.mu.Unlock()
GetSceneIncrement(g) ==
    /\ getter[g].pc = "lock"
    /\ MuFree
    /\ cached' = [cached EXCEPT ![getter[g].scene].UsageCount = @ + 1]
    /\ getter' = [getter EXCEPT ![g].pc = "rlock"]
    /\ UNCHANGED <<scenes, muReaders, nGets, counted, listing>>
    /\ UNCHANGED outsideCache

\* sc.mu.RLock()
GetSceneRLock(g) ==
    /\ getter[g].pc = "rlock"
    /\ muReaders' = muReaders + 1
    /\ getter' = [getter EXCEPT ![g].pc = "return"]
    /\ UNCHANGED <<cached, scenes, nGets, counted, listing>>
    /\ UNCHANGED outsideCache

\* return scene, nil, and the deferred sc.mu.RUnlock()
GetSceneReturn(g) ==
    /\ getter[g].pc = "return"
    /\ muReaders' = muReaders - 1
    /\ getter' = [getter EXCEPT ![g] = NoGetter]
    /\ cached' = Collect(cached, scenes, getter')
    /\ counted' = IF getter[g].stale THEN counted
                  ELSE [counted EXCEPT ![getter[g].name] = @ + 1]
    /\ UNCHANGED <<scenes, nGets, listing>>
    /\ UNCHANGED outsideCache

GetScene(g) ==
    \/ \E name \in NameInputs, caller \in GetCallers : GetSceneLookup(g, name, caller)
    \/ GetSceneRUnlock(g)
    \/ GetSceneIncrement(g)
    \/ GetSceneRLock(g)
    \/ GetSceneReturn(g)

CacheNext ==
    \/ \E name \in NameInputs, commands \in {<<>>, <<CmdLightOn>>} :
          SaveScene(name, commands, DefaultDelayMs)
    \/ \E name \in NameInputs : DeleteScene(name)
    \/ HandleListCachedScenes
    \/ \E g \in Getters : GetScene(g)

(***************************************************************************)
(* Entertainment streaming: src/mcp/entertainment.go (handlers) and        *)
(* src/hue/entertainment.go (EntertainmentStreamer)                        *)
(*                                                                         *)
(* Every start_streaming call that passes the "already active" test        *)
(* creates one streamer, so the call is followed in the record of the      *)
(* streamer it creates.  sendUDPPacket runs e.sequence++ without a lock    *)
(* that excludes the other callers: the read, the write and the Write of   *)
(* the packet are separate steps.                                          *)
(***************************************************************************)
EntObjs == 1..MaxStreamers

ConfigIds == {"c1"}

\* start: where the creating start_streaming call is; loop: where the
\* streamingLoop goroutine is; ltmp: the value the loop read from sequence;
\* bridge: "active" from the StartEntertainment call of this streamer that the
\* bridge accepted until its StopEntertainment call
NoStreamer ==
    [alloc |-> FALSE, configID |-> "", running |-> FALSE, stopChan |-> "open",
     conn |-> "nil", sequence |-> 0, readers |-> 0, start |-> "none",
     loop |-> "none", ltmp |-> 0, bridge |-> "idle"]

NoEntCall == [pc |-> "idle", obj |-> 0, tmp |-> 0]

NoStreamers ==
    /\ streamers = [o \in EntObjs |-> NoStreamer]
    /\ activeStreamers = [c \in ConfigIds |-> 0]
    /\ stopper = NoEntCall
    /\ sender = NoEntCall
    /\ packets = [o \in EntObjs |-> <<>>]

NewEntertainmentStreamer(configID) ==
    [NoStreamer EXCEPT !.alloc = TRUE, !.configID = configID, !.start = "created"]

\* HandleStartStreaming up to NewEntertainmentStreamer: the test under RLock
StartCheck(o, c) ==
    /\ ~streamers[o].alloc
    /\ \A p \in EntObjs : p < o => streamers[p].alloc
    /\ activeStreamers[c] = 0
    /\ streamers' = [streamers EXCEPT ![o] = NewEntertainmentStreamer(c)]
    /\ UNCHANGED <<activeStreamers, stopper, sender, packets>>
    /\ UNCHANGED outsideEnt

\* how a call of Start ends: the bridge refuses StartEntertainment; the bridge
\* accepts it and GetEntertainmentConfiguration, ResolveUDPAddr or DialUDP
\* fails; every step succeeds
StartOutcomes == {"refused", "broken", "ok"}

\* EntertainmentStreamer.Start (hue/entertainment.go:158-196): every failure
\* is returned as it is
StartStreamer(o) ==
    /\ streamers[o].start = "created"
    /\ \E outcome \in StartOutcomes :
          streamers' = [streamers EXCEPT ![o] =
              CASE outcome = "ok" ->
                      [@ EXCEPT !.running = TRUE, !.conn = "open", !.bridge = "active",
                                !.loop = "select", !.start = "started"]
                [] outcome = "broken" ->
                      [@ EXCEPT !.bridge = "active", !.start = "failed"]
                [] OTHER -> [@ EXCEPT !.start = "failed"]]
    /\ UNCHANGED <<activeStreamers, stopper, sender, packets>>
    /\ UNCHANGED outsideEnt

\* activeStreamers[configID] = streamer, under Lock
StartStore(o) ==
    /\ streamers[o].start = "started"
    /\ activeStreamers' = [activeStreamers EXCEPT ![streamers[o].configID] = o]
    /\ streamers' = [streamers EXCEPT ![o].start = "stored"]
    /\ UNCHANGED <<stopper, sender, packets>>
    /\ UNCHANGED outsideEnt

HandleStartStreaming(o) ==
    \/ \E c \in ConfigIds : StartCheck(o, c)
    \/ StartStreamer(o)
    \/ StartStore(o)

\* HandleStopStreaming: take the streamer out of the map, under Lock
StopTake(c) ==
    /\ stopper.pc = "idle"
    /\ activeStreamers[c] # 0
    /\ stopper' = [pc |-> "stop", obj |-> activeStreamers[c], tmp |-> 0]
    /\ activeStreamers' = [activeStreamers EXCEPT ![c] = 0]
    /\ UNCHANGED <<streamers, sender, packets>>
    /\ UNCHANGED outsideEnt

\* EntertainmentStreamer.Stop, under e.mu.Lock
StopStreamer ==
    /\ stopper.pc = "stop"
    /\ streamers[stopper.obj].readers = 0
    /\ streamers' = [streamers EXCEPT ![stopper.obj] =
          IF @.running
          THEN [@ EXCEPT !.stopChan = "closed", !.running = FALSE, !.conn = "closed",
                         !.bridge = "idle"]
          ELSE @]
    /\ stopper' = NoEntCall
    /\ UNCHANGED <<activeStreamers, sender, packets>>
    /\ UNCHANGED outsideEnt

HandleStopStreaming ==
    \/ \E c \in ConfigIds : StopTake(c)
    \/ StopStreamer

\* the senders that are building a packet of streamer o
Building(o) ==
    (IF streamers[o].loop \in {"store", "write"} THEN 1 ELSE 0)
    + (IF sender.obj = o /\ sender.pc \in {"store", "write"} THEN 1 ELSE 0)

\* e.sequence++ reads sequence ...
CanBuild(o) ==
    /\ streamers[o].sequence < MaxPackets
    /\ Len(packets[o]) + Building(o) < MaxPackets

\* ... and writes it back one higher, modulo 256
Incremented(tmp) == (tmp + 1) % SequenceMod

\* conn.Write: the packet carries the number the sender wrote, or the number
\* in e.sequence when the packet is built if another sender has written since
PacketNumbers(o, tmp) == {Incremented(tmp), streamers[o].sequence}

Written(o, n) ==
    IF streamers[o].conn = "open"
    THEN [packets EXCEPT ![o] = Append(@, n)]
    ELSE packets

\* streamingLoop: select { case <-e.stopChan: return; case <-ticker.C: ... }
LoopStop(o) ==
    /\ streamers[o].loop = "select"
    /\ streamers[o].stopChan = "closed"
    /\ streamers' = [streamers EXCEPT ![o].loop = "done"]
    /\ UNCHANGED <<activeStreamers, stopper, sender, packets>>
    /\ UNCHANGED outsideEnt

LoopTick(o) ==
    /\ streamers[o].loop = "select"
    /\ CanBuild(o)
    /\ streamers' = [streamers EXCEPT ![o].loop = "store",
                                      ![o].ltmp = streamers[o].sequence]
    /\ UNCHANGED <<activeStreamers, stopper, sender, packets>>
    /\ UNCHANGED outsideEnt

LoopStore(o) ==
    /\ streamers[o].loop = "store"
    /\ streamers' = [streamers EXCEPT ![o].loop = "write",
                                      ![o].sequence = Incremented(streamers[o].ltmp)]
    /\ UNCHANGED <<activeStreamers, stopper, sender, packets>>
    /\ UNCHANGED outsideEnt

LoopWrite(o) ==
    /\ streamers[o].loop = "write"
    /\ \E n \in PacketNumbers(o, streamers[o].ltmp) : packets' = Written(o, n)
    /\ streamers' = [streamers EXCEPT ![o].loop = "select", ![o].ltmp = 0]
    /\ UNCHANGED <<activeStreamers, stopper, sender>>
    /\ UNCHANGED outsideEnt

streamingLoop(o) == LoopStop(o) \/ LoopTick(o) \/ LoopStore(o) \/ LoopWrite(o)

\* HandleSendColors: look the streamer up, under RLock
SendLookup(c) ==
    /\ sender.pc = "idle"
    /\ activeStreamers[c] # 0
    /\ sender' = [pc |-> "got", obj |-> activeStreamers[c], tmp |-> 0]
    /\ UNCHANGED <<streamers, activeStreamers, stopper, packets>>
    /\ UNCHANGED outsideEnt

\* SendColors: e.mu.RLock(); if !e.running return an error; the read of sequence
SendRLock ==
    /\ sender.pc = "got"
    /\ streamers[sender.obj].running => CanBuild(sender.obj)
    /\ IF streamers[sender.obj].running
       THEN /\ streamers' = [streamers EXCEPT ![sender.obj].readers = @ + 1]
            /\ sender' = [sender EXCEPT !.pc = "store",
                                        !.tmp = streamers[sender.obj].sequence]
       ELSE /\ sender' = NoEntCall
            /\ UNCHANGED streamers
    /\ UNCHANGED <<activeStreamers, stopper, packets>>
    /\ UNCHANGED outsideEnt

SendStore ==
    /\ sender.pc = "store"
    /\ streamers' = [streamers EXCEPT ![sender.obj].sequence = Incremented(sender.tmp)]
    /\ sender' = [sender EXCEPT !.pc = "write"]
    /\ UNCHANGED <<activeStreamers, stopper, packets>>
    /\ UNCHANGED outsideEnt

\* conn.Write and the deferred e.mu.RUnlock()
SendWrite ==
    /\ sender.pc = "write"
    /\ \E n \in PacketNumbers(sender.obj, sender.tmp) : packets' = Written(sender.obj, n)
    /\ streamers' = [streamers EXCEPT ![sender.obj].readers = @ - 1]
    /\ sender' = NoEntCall
    /\ UNCHANGED <<activeStreamers, stopper>>
    /\ UNCHANGED outsideEnt

HandleSendColors ==
    \/ \E c \in ConfigIds : SendLookup(c)
    \/ SendRLock
    \/ SendStore
    \/ SendWrite

EntNext ==
    \/ \E o \in EntObjs : HandleStartStreaming(o)
    \/ HandleStopStreaming
    \/ \E o \in EntObjs : streamingLoop(o)
    \/ HandleSendColors

(***************************************************************************)
(* The batch executor: src/mcp/mcp.go                                      *)
(*                                                                         *)
(* One batch is followed at a time: a new batch_commands or recall_scene   *)
(* call is taken when the previous batch has ended.  Every command has the *)
(* same target, so a command is its action and its value.                  *)
(***************************************************************************)
BatchCommands == {CmdLightOn, CmdBri150, CmdColorRed}

RECURSIVE SeqsUpTo(_, _)
SeqsUpTo(S, n) ==
    IF n = 0 THEN {<<>>}
    ELSE LET shorter == SeqsUpTo(S, n - 1)
         IN  shorter \cup {Append(q, x) : q \in shorter, x \in S}

BatchLists == SeqsUpTo(BatchCommands, MaxBatchLen)

\* strconv.ParseFloat on the value strings of the model
ParseFloat(value) ==
    CASE value = "0" -> [ok |-> TRUE, f |-> 0]
      [] value = "50" -> [ok |-> TRUE, f |-> 50]
      [] value = "100" -> [ok |-> TRUE, f |-> 100]
      [] value = "150" -> [ok |-> TRUE, f |-> 150]
      [] value = "-1" -> [ok |-> TRUE, f |-> 0 - 1]
      [] OTHER -> [ok |-> FALSE, f |-> 0]

\* strings.ToLower on the colour names of the model
ToLower(s) ==
    CASE s = "RED" -> "red"
      [] s = "Blue" -> "blue"
      [] OTHER -> s

namedColorToHex(color) ==
    LET c == ToLower(color)
    IN  CASE c = "red" -> "#FF0000"
          [] c = "green" -> "#00FF00"
          [] c = "blue" -> "#0000FF"
          [] c = "yellow" -> "#FFFF00"
          [] c = "cyan" -> "#00FFFF"
          [] c = "magenta" -> "#FF00FF"
          [] c = "white" -> "#FFFFFF"
          [] c = "warm" -> "#FFA500"
          [] c = "cool" -> "#ADD8E6"
          [] c = "orange" -> "#FFA500"
          [] c = "purple" -> "#800080"
          [] c = "pink" -> "#FFC0CB"
          [] OTHER -> ""

\* the strings of the model that are '#' and six hexadecimal digits
isValidHexColor(hex) ==
    hex \in {"#FF0000", "#00FF00", "#0000FF", "#FFFF00", "#00FFFF", "#FF00FF",
             "#FFFFFF", "#FFA500", "#ADD8E6", "#800080", "#FFC0CB", "#1a2b3c"}

NoCall == [op |-> "", num |-> 0, str |-> ""]

\* a request of the client: it fails when its context is cancelled or when
\* the bridge refuses it
ClientCall(op, num, str, ctxCancelled, bridgeOk) ==
    [err |-> ctxCancelled \/ ~bridgeOk, call |-> [op |-> op, num |-> num, str |-> str]]

Invalid == [err |-> TRUE, call |-> NoCall]

HexOf(value) ==
    IF namedColorToHex(value) = "" THEN value ELSE namedColorToHex(value)

\* the client method of an action that takes no value
PlainOp(action) ==
    CASE action = "light_on" -> "TurnOnLight"
      [] action = "light_off" -> "TurnOffLight"
      [] action = "group_on" -> "TurnOnGroup"
      [] action = "group_off" -> "TurnOffGroup"
      [] action = "activate_scene" -> "ActivateScene"
      [] action = "identify_light" -> "IdentifyLight"

executeBatchCommand(cmd, ctxCancelled, bridgeOk) ==
    CASE cmd.action \in {"light_on", "light_off", "group_on", "group_off",
                         "activate_scene", "identify_light"} ->
            ClientCall(PlainOp(cmd.action), 0, "", ctxCancelled, bridgeOk)
      [] cmd.action \in {"light_brightness", "group_brightness"} ->
            IF ~ParseFloat(cmd.value).ok THEN Invalid
            ELSE IF ParseFloat(cmd.value).f < 0 \/ ParseFloat(cmd.value).f > 100
                 THEN Invalid
                 ELSE ClientCall(IF cmd.action = "light_brightness"
                                 THEN "SetLightBrightness" ELSE "SetGroupBrightness",
                                 ParseFloat(cmd.value).f, "", ctxCancelled, bridgeOk)
      [] cmd.action \in {"light_color", "group_color"} ->
            IF cmd.value = "" THEN Invalid
            ELSE IF ~isValidHexColor(HexOf(cmd.value)) THEN Invalid
                 ELSE ClientCall(IF cmd.action = "light_color"
                                 THEN "SetLightColor" ELSE "SetGroupColor",
                                 0, HexOf(cmd.value), ctxCancelled, bridgeOk)
      [] cmd.action \in {"light_effect", "group_effect"} ->
            IF cmd.value = "" THEN Invalid
            ELSE ClientCall(IF cmd.action = "light_effect"
                            THEN "SetLightEffect" ELSE "SetGroupEffect",
                            0, cmd.value, ctxCancelled, bridgeOk)
      [] OTHER -> Invalid

\* what the bridge answered to a command
Answer(r, ctxCancelled) ==
    IF r.call = NoCall THEN "none"
    ELSE IF ctxCancelled THEN "cancelled"
    ELSE IF r.err THEN "fail" ELSE "ok"

NoBatch ==
    [mode |-> "none", pc |-> "idle", commands |-> <<>>, delayMs |-> 0, cache |-> "", i |-> 1,
     results |-> <<>>, calls |-> <<>>, answers |-> <<>>, callerDone |-> FALSE,
     summary |-> <<>>, error |-> ""]

NoBatchYet == batch = NoBatch

BatchEnded == batch.pc \in {"idle", "done", "cancelled"}

CountOf(results, success) ==
    Cardinality({k \in 1..Len(results) : results[k].Success = success})

\* the loops of ExecuteBatch and ExecuteBatchAsync go on to the next command
\* whatever the outcome of this one
AfterCommand_AbortOnError(i, n, ok) == IF ok THEN i + 1 ELSE n + 1

AfterCommand(i, n, ok) == i + 1

\* one command of the batch: run it and record its outcome
CommandDone(b, ctxCancelled, bridgeOk) ==
    LET r == executeBatchCommand(b.commands[b.i], ctxCancelled, bridgeOk)
    IN  [b EXCEPT
           !.results = Append(@, [Success |-> ~r.err, index |-> b.i]),
           !.calls = IF r.call = NoCall THEN @ ELSE Append(@, r.call),
           !.answers = Append(@, Answer(r, ctxCancelled)),
           !.i = AfterCommand(b.i, Len(b.commands), ~r.err)]

\* ExecuteBatch has returned: the handler counts the outcomes
Summarised(b) ==
    IF b.i > Len(b.commands)
    THEN [b EXCEPT !.pc = "done",
                   !.summary = <<CountOf(b.results, TRUE), CountOf(b.results, FALSE)>>]
    ELSE b

\* cache: the name the batch was cached under by the call that started it
StartBatch(commands, delayMs, async, cacheName) ==
    IF async
    THEN [NoBatch EXCEPT !.mode = "async", !.pc = "select", !.commands = commands,
                         !.delayMs = delayMs, !.cache = cacheName]
    ELSE Summarised([NoBatch EXCEPT !.mode = "sync", !.pc = "exec",
                                    !.commands = commands, !.delayMs = delayMs,
                                    !.cache = cacheName])

\* delay_ms as given together with cache_name; left out (the default) otherwise
DelayInputs == {0}

HandleBatchCommands(commands, delayMs, async, cacheName) ==
    /\ BatchEnded
    /\ MuFree
    /\ IF cacheName # "" /\ SaveSceneError(cacheName, commands) # ""
       THEN /\ batch' = [NoBatch EXCEPT !.error = "Failed to cache scene"]
            /\ UNCHANGED <<cached, scenes, getter, counted>>
       ELSE /\ IF cacheName = ""
               THEN UNCHANGED <<cached, scenes, getter, counted>>
               ELSE /\ \E o \in SceneObjs : ~cached[o].alloc
                    /\ scenes' = ScenesAfterSave(cacheName)
                    /\ cached' = CachedAfterSave(cacheName, commands, delayMs)
                    /\ getter' = GettersAfterSave(cacheName)
                    /\ counted' = [counted EXCEPT ![cacheName] = 0]
            /\ batch' = StartBatch(commands, delayMs, async, cacheName)
    /\ UNCHANGED <<muReaders, nGets, listing>>
    /\ UNCHANGED outsideBatch

\* GetScene with no other call on the cache in progress, then the batch
HandleRecallScene(name) ==
    /\ BatchEnded
    /\ MuFree
    /\ \A g \in Getters : getter[g].pc = "idle"
    /\ nGets < MaxGets
    /\ nGets' = nGets + 1
    /\ IF Lookup(scenes, name) = 0
       THEN /\ batch' = [NoBatch EXCEPT !.error = "Failed to recall scene"]
            /\ UNCHANGED <<cached, counted>>
       ELSE /\ cached' = [cached EXCEPT ![scenes[name]].UsageCount = @ + 1]
            /\ counted' = [counted EXCEPT ![name] = @ + 1]
            /\ batch' = StartBatch(cached[scenes[name]].Commands,
                                   cached[scenes[name]].DelayMs, TRUE, "")
    /\ UNCHANGED <<scenes, muReaders, getter, listing>>
    /\ UNCHANGED outsideBatch

\* the context of the tool call is cancelled
CancelCallerContext ==
    /\ batch.mode # "none"
    /\ ~batch.callerDone
    /\ batch' = [batch EXCEPT !.callerDone = TRUE]
    /\ UNCHANGED cacheVars
    /\ UNCHANGED outsideBatch

\* one iteration of the loop of ExecuteBatch; the client is called with ctx
ExecuteBatch ==
    /\ batch.mode = "sync"
    /\ batch.pc = "exec"
    /\ \E bridgeOk \in BOOLEAN :
          batch' = Summarised(CommandDone(batch, batch.callerDone, bridgeOk))
    /\ UNCHANGED cacheVars
    /\ UNCHANGED outsideBatch

\* for i, cmd := range commands { select { case <-ctx.Done(): return; default: }
AsyncSelect ==
    /\ batch.mode = "async"
    /\ batch.pc = "select"
    /\ batch' = [batch EXCEPT !.pc =
                    IF batch.i > Len(batch.commands) THEN "done"
                    ELSE IF batch.callerDone THEN "cancelled"
                    ELSE "exec"]
    /\ UNCHANGED cacheVars
    /\ UNCHANGED outsideBatch

\* the rest of the iteration; the client is called with asyncCtx, which is
\* context.Background() and is never cancelled
AsyncCommand ==
    /\ batch.mode = "async"
    /\ batch.pc = "exec"
    /\ \E bridgeOk \in BOOLEAN :
          batch' = [CommandDone(batch, FALSE, bridgeOk) EXCEPT !.pc = "select"]
    /\ UNCHANGED cacheVars
    /\ UNCHANGED outsideBatch

ExecuteBatchAsync == AsyncSelect \/ AsyncCommand

BatchNext ==
    \/ \E commands \in BatchLists, async \in BOOLEAN :
          HandleBatchCommands(commands, DefaultDelayMs, async, "")
    \/ \E commands \in SceneLists, delayMs \in DelayInputs, async \in BOOLEAN,
          cacheName \in SceneNames :
          HandleBatchCommands(commands, delayMs, async, cacheName)
    \/ \E name \in NameInputs : HandleRecallScene(name)
    \/ CancelCallerContext
    \/ ExecuteBatch
    \/ ExecuteBatchAsync

(***************************************************************************)
(* Event stream consumer                                                   *)
(***************************************************************************)
Streams == 1..MaxStreams

EventTypes == {"motion", "button"}

\* the filters HandleStartEventStream is called with: none, or "motion"
Filters == {{}, {"motion"}}

NoEvent == [id |-> 0, Type |-> ""]

NoStream == [alloc |-> FALSE, events |-> <<>>, evClosed |-> FALSE, errors |-> 0,
             errClosed |-> FALSE, done |-> FALSE, reconnect |-> FALSE,
             ctxDone |-> FALSE]

NoConn == [pc |-> "none", cur |-> NoEvent, ended |-> "none", waited |-> FALSE,
           ends |-> 0]

NoFilt == [pc |-> "none", types |-> {}, held |-> NoEvent, out |-> <<>>,
           closed |-> FALSE]

NoProc == [pc |-> "none", types |-> {}, src |-> 0, errs |-> 0]

InitEventManager ==
    /\ streaming = FALSE
    /\ emStream = 0
    /\ recentEvents = <<>>
    /\ es = [s \in Streams |-> NoStream]
    /\ conn = [s \in Streams |-> NoConn]
    /\ filt = [s \in Streams |-> NoFilt]
    /\ proc = [s \in Streams |-> NoProc]
    /\ arrived = 0
    /\ received = <<>>
    /\ dropped = {}
    /\ stored = <<>>
    /\ evPanicked = FALSE

\* a nil-pointer dereference in a goroutine ends the process
EvCrash ==
    /\ evPanicked' = TRUE
    /\ streaming' = FALSE
    /\ emStream' = 0
    /\ recentEvents' = <<>>
    /\ es' = [s \in Streams |-> NoStream]
    /\ conn' = [s \in Streams |-> NoConn]
    /\ filt' = [s \in Streams |-> NoFilt]
    /\ proc' = [s \in Streams |-> NoProc]
    /\ arrived' = 0
    /\ received' = <<>>
    /\ dropped' = {}
    /\ stored' = <<>>

\* StreamEvents: a new EventStream and its connect goroutine
StreamEvents(s) ==
    /\ es' = [es EXCEPT ![s] = [NoStream EXCEPT !.alloc = TRUE, !.reconnect = TRUE]]
    /\ conn' = [conn EXCEPT ![s] = [NoConn EXCEPT !.pc = "loop"]]

\* HandleStartEventStream(filter)
HandleStartEventStream(filterTypes) ==
    /\ ~evPanicked
    /\ IF streaming
       THEN UNCHANGED evVars
       ELSE \E s \in Streams :
              /\ ~es[s].alloc
              /\ \A t \in Streams : t < s => es[t].alloc
              /\ StreamEvents(s)
              /\ emStream' = s
              /\ streaming' = TRUE
              /\ proc' = [proc EXCEPT ![s] = [NoProc EXCEPT !.pc = "start",
                                                             !.types = filterTypes]]
              /\ UNCHANGED <<recentEvents, filt, arrived, received, dropped, stored, evPanicked>>
    /\ UNCHANGED outsideEvents

\* EventStream.Close: reconnect = false; close(done)
Close(s) == [es EXCEPT ![s].reconnect = FALSE, ![s].done = TRUE]

\* HandleStopEventStream
HandleStopEventStream ==
    /\ ~evPanicked
    /\ IF ~streaming
       THEN UNCHANGED evVars
       ELSE /\ es' = IF emStream # 0 THEN Close(emStream) ELSE es
            /\ emStream' = 0
            /\ streaming' = FALSE
            /\ UNCHANGED <<recentEvents, conn, filt, proc, arrived, received, dropped, stored,
                           evPanicked>>
    /\ UNCHANGED outsideEvents

\* the context HandleStartEventStream handed to StreamEvents is cancelled
CancelStreamContext(s) ==
    /\ ~evPanicked
    /\ es[s].alloc
    /\ ~es[s].ctxDone
    /\ es' = [es EXCEPT ![s].ctxDone = TRUE]
    /\ UNCHANGED <<streaming, emStream, recentEvents, conn, filt, proc, arrived,
                   received, dropped, stored, evPanicked>>
    /\ UNCHANGED outsideEvents

EvFrame == <<streaming, emStream, recentEvents, filt, proc, stored, evPanicked>>

\* connect, head of the loop (test_server.sh:299-306): the reconnect test, the
\* select on ctx.Done() and done, and the request streamEvents makes
ConnLoop(s) ==
    /\ ~evPanicked
    /\ conn[s].pc = "loop"
    /\ IF ~es[s].reconnect \/ es[s].done \/ es[s].ctxDone
       THEN conn' = [conn EXCEPT ![s].pc = "exit"]
       ELSE \/ conn' = [conn EXCEPT ![s].pc = "reading"]
            \/ /\ conn[s].ends < MaxEnds
               /\ conn' = [conn EXCEPT ![s].pc = "senderr", ![s].ended = "error",
                                       ![s].waited = FALSE, ![s].ends = conn[s].ends + 1]
    /\ UNCHANGED <<es, arrived, received, dropped, stored>>
    /\ UNCHANGED EvFrame
    /\ UNCHANGED outsideEvents

\* streamEvents: the scanner returns a line while done is closed (test_server.sh:355)
ReadAfterClose(s) ==
    /\ ~evPanicked
    /\ conn[s].pc = "reading"
    /\ es[s].done
    /\ conn' = [conn EXCEPT ![s].pc = "loop"]
    /\ UNCHANGED <<es, arrived, received, dropped, stored>>
    /\ UNCHANGED EvFrame
    /\ UNCHANGED outsideEvents

\* streamEvents: a frame with one event is complete and processEvent is called
Arrive(s, ty) ==
    /\ ~evPanicked
    /\ conn[s].pc = "reading"
    /\ ~es[s].done /\ ~es[s].ctxDone
    /\ arrived < MaxArrivals
    /\ arrived' = arrived + 1
    /\ received' = Append(received, [id |-> arrived + 1, Type |-> ty])
    /\ conn' = [conn EXCEPT ![s].pc = "send", ![s].cur = [id |-> arrived + 1, Type |-> ty]]
    /\ UNCHANGED <<es, dropped, stored>>
    /\ UNCHANGED EvFrame
    /\ UNCHANGED outsideEvents

\* streamEvents: the read fails (scanner.Err() or ctx.Done()), an error is returned
ReadError(s) ==
    /\ ~evPanicked
    /\ conn[s].pc = "reading"
    /\ conn[s].ends < MaxEnds
    /\ conn' = [conn EXCEPT ![s].pc = "senderr", ![s].ended = "error",
                            ![s].waited = FALSE, ![s].ends = conn[s].ends + 1]
    /\ UNCHANGED <<es, arrived, received, dropped, stored>>
    /\ UNCHANGED EvFrame
    /\ UNCHANGED outsideEvents

\* where connect goes when streamEvents returns nil (test_server.sh:306-307, 322)
AfterNil(c) == [c EXCEPT !.pc = "loop"]

\* streamEvents: the bridge closes the stream; scanner.Err() is nil at EOF, so
\* streamEvents returns nil
ReadEOF(s) ==
    /\ ~evPanicked
    /\ conn[s].pc = "reading"
    /\ ~es[s].ctxDone
    /\ conn[s].ends < MaxEnds
    /\ conn' = [conn EXCEPT ![s] = AfterNil([conn[s] EXCEPT !.ended = "eof",
                                 !.waited = FALSE, !.ends = conn[s].ends + 1])]
    /\ UNCHANGED <<es, arrived, received, dropped, stored>>
    /\ UNCHANGED EvFrame
    /\ UNCHANGED outsideEvents

\* processEvent, the first select (test_server.sh:395-397)
ProcessEventSend(s) ==
    /\ ~evPanicked
    /\ conn[s].pc = "send"
    /\ IF Len(es[s].events) < ChanCap
       THEN /\ es' = [es EXCEPT ![s].events = Append(es[s].events, conn[s].cur)]
            /\ conn' = [conn EXCEPT ![s].pc = "reading", ![s].cur = NoEvent]
       ELSE /\ conn' = [conn EXCEPT ![s].pc = "drop"]
            /\ UNCHANGED es
    /\ UNCHANGED <<arrived, received, dropped, stored>>
    /\ UNCHANGED EvFrame
    /\ UNCHANGED outsideEvents

\* processEvent, the inner select (test_server.sh:399-403): receive the oldest
\* event, or take the default case when the channel is empty by now
ProcessEventDrop(s) ==
    /\ ~evPanicked
    /\ conn[s].pc = "drop"
    /\ IF Len(es[s].events) > 0
       THEN /\ es' = [es EXCEPT ![s].events = Tail(es[s].events)]
            /\ dropped' = dropped \cup {Head(es[s].events).id}
            /\ conn' = [conn EXCEPT ![s].pc = "resend"]
       ELSE /\ dropped' = dropped \cup {conn[s].cur.id}
            /\ conn' = [conn EXCEPT ![s].pc = "reading", ![s].cur = NoEvent]
            /\ UNCHANGED es
    /\ UNCHANGED <<arrived, received>>
    /\ UNCHANGED EvFrame
    /\ UNCHANGED outsideEvents

\* processEvent, the send after the receive (test_server.sh:401)
ProcessEventResend(s) ==
    /\ ~evPanicked
    /\ conn[s].pc = "resend"
    /\ Len(es[s].events) < ChanCap
    /\ es' = [es EXCEPT ![s].events = Append(es[s].events, conn[s].cur)]
    /\ conn' = [conn EXCEPT ![s].pc = "reading", ![s].cur = NoEvent]
    /\ UNCHANGED <<arrived, received, dropped, stored>>
    /\ UNCHANGED EvFrame
    /\ UNCHANGED outsideEvents

\* connect: es.errors <- err, then the reconnect test (test_server.sh:308-309)
ConnSendErr(s) ==
    /\ ~evPanicked
    /\ conn[s].pc = "senderr"
    /\ es[s].errors < ErrCap
    /\ es' = [es EXCEPT ![s].errors = es[s].errors + 1]
    /\ conn' = [conn EXCEPT ![s].pc = IF es[s].reconnect THEN "wait" ELSE "loop"]
    /\ UNCHANGED <<arrived, received, dropped, stored>>
    /\ UNCHANGED EvFrame
    /\ UNCHANGED outsideEvents

\* connect: the select on the 5-second timer, ctx.Done() and done
\* (test_server.sh:311-318)
ConnWait(s) ==
    /\ ~evPanicked
    /\ conn[s].pc = "wait"
    /\ \/ conn' = [conn EXCEPT ![s].pc = "loop", ![s].waited = TRUE]
       \/ /\ es[s].done \/ es[s].ctxDone
          /\ conn' = [conn EXCEPT ![s].pc = "exit"]
    /\ UNCHANGED <<es, arrived, received, dropped, stored>>
    /\ UNCHANGED EvFrame
    /\ UNCHANGED outsideEvents

\* connect returns: the deferred close(es.errors) and close(es.events)
ConnExit(s) ==
    /\ ~evPanicked
    /\ conn[s].pc = "exit"
    /\ es' = [es EXCEPT ![s].errClosed = TRUE, ![s].evClosed = TRUE]
    /\ conn' = [conn EXCEPT ![s].pc = "done"]
    /\ UNCHANGED <<arrived, received, dropped, stored>>
    /\ UNCHANGED EvFrame
    /\ UNCHANGED outsideEvents

connect(s) ==
    \/ ConnLoop(s)
    \/ ReadAfterClose(s)
    \/ ReadError(s)
    \/ ReadEOF(s)
    \/ ProcessEventSend(s)
    \/ ProcessEventDrop(s)
    \/ ProcessEventResend(s)
    \/ ConnSendErr(s)
    \/ ConnWait(s)
    \/ ConnExit(s)

\* FilterEvents, the goroutine's test (test_server.sh:419)
Passes(types, e) == e.Type \in types \/ types = {}

\* FilterEvents goroutine: for event := range es.events
FilterRecv(s) ==
    /\ ~evPanicked
    /\ filt[s].pc = "recv"
    /\ IF Len(es[s].events) > 0
       THEN /\ es' = [es EXCEPT ![s].events = Tail(es[s].events)]
            /\ filt' = IF Passes(filt[s].types, Head(es[s].events))
                       THEN [filt EXCEPT ![s].pc = "send", ![s].held = Head(es[s].events)]
                       ELSE filt
       ELSE /\ es[s].evClosed
            /\ filt' = [filt EXCEPT ![s].pc = "done", ![s].closed = TRUE]
            /\ UNCHANGED es
    /\ UNCHANGED <<streaming, emStream, recentEvents, conn, proc, arrived, received,
                   dropped, stored, evPanicked>>
    /\ UNCHANGED outsideEvents

\* FilterEvents goroutine: filtered <- event
FilterSend(s) ==
    /\ ~evPanicked
    /\ filt[s].pc = "send"
    /\ Len(filt[s].out) < ChanCap
    /\ filt' = [filt EXCEPT ![s].pc = "recv", ![s].held = NoEvent,
                            ![s].out = Append(filt[s].out, filt[s].held)]
    /\ UNCHANGED <<streaming, emStream, recentEvents, es, conn, proc, arrived, received,
                   dropped, stored, evPanicked>>
    /\ UNCHANGED outsideEvents

\* the last n elements of q
LastN(q, n) == IF Len(q) <= n THEN q ELSE SubSeq(q, Len(q) - n + 1, Len(q))

storeEvent_NoTrim(buf, e) == Append(buf, e)

\* storeEvent: append, then keep the most recent maxEvents
storeEvent(buf, e) == LastN(Append(buf, e), maxEvents)

\* processEvents, start (part_009:218-224): em.stream.FilterEvents(...) or
\* em.stream.Events()
ProcessEventsStart(p) ==
    /\ ~evPanicked
    /\ proc[p].pc = "start"
    /\ IF emStream = 0
       THEN EvCrash
       ELSE /\ proc' = [proc EXCEPT ![p].pc = "eval", ![p].src = emStream]
            /\ filt' = IF proc[p].types # {}
                       THEN [filt EXCEPT ![emStream].pc = "recv",
                                         ![emStream].types = proc[p].types]
                       ELSE filt
            /\ UNCHANGED <<streaming, emStream, recentEvents, es, conn, arrived,
                           received, dropped, stored, evPanicked>>
    /\ UNCHANGED outsideEvents

\* processEvents, entering the select (part_009:227-234): em.stream.Errors()
\* is evaluated through em.stream
ProcessEventsEval(p) ==
    /\ ~evPanicked
    /\ proc[p].pc = "eval"
    /\ IF emStream = 0
       THEN EvCrash
       ELSE /\ proc' = [proc EXCEPT ![p].pc = "select", ![p].errs = emStream]
            /\ UNCHANGED <<streaming, emStream, recentEvents, es, conn, filt, arrived,
                           received, dropped, stored, evPanicked>>
    /\ UNCHANGED outsideEvents

\* processEvents: case event, ok := <-events
ProcessEventsRecv(p) ==
    /\ ~evPanicked
    /\ proc[p].pc = "select"
    /\ LET s == proc[p].src
           filtered == proc[p].types # {}
           ch == IF filtered THEN filt[s].out ELSE es[s].events
           closed == IF filtered THEN filt[s].closed ELSE es[s].evClosed
       IN
       IF Len(ch) > 0
       THEN /\ recentEvents' = storeEvent(recentEvents, Head(ch))
            /\ stored' = Append(stored, Head(ch))
            /\ IF filtered
               THEN /\ filt' = [filt EXCEPT ![s].out = Tail(ch)]
                    /\ UNCHANGED es
               ELSE /\ es' = [es EXCEPT ![s].events = Tail(ch)]
                    /\ UNCHANGED filt
            /\ proc' = [proc EXCEPT ![p].pc = "eval"]
       ELSE /\ closed
            /\ proc' = [proc EXCEPT ![p].pc = "done"]
            /\ UNCHANGED <<recentEvents, es, filt, stored>>
    /\ UNCHANGED <<streaming, emStream, conn, arrived, received, dropped, evPanicked>>
    /\ UNCHANGED outsideEvents

\* processEvents: case err, ok := <-em.stream.Errors()
ProcessEventsErr(p) ==
    /\ ~evPanicked
    /\ proc[p].pc = "select"
    /\ LET s == proc[p].errs IN
       IF es[s].errors > 0
       THEN /\ es' = [es EXCEPT ![s].errors = es[s].errors - 1]
            /\ proc' = [proc EXCEPT ![p].pc = "eval"]
       ELSE /\ es[s].errClosed
            /\ proc' = [proc EXCEPT ![p].pc = "done"]
            /\ UNCHANGED es
    /\ UNCHANGED <<streaming, emStream, recentEvents, conn, filt, arrived, received,
                   dropped, stored, evPanicked>>
    /\ UNCHANGED outsideEvents

processEvents(p) ==
    \/ ProcessEventsStart(p)
    \/ ProcessEventsEval(p)
    \/ ProcessEventsRecv(p)
    \/ ProcessEventsErr(p)

\* HandleGetRecentEvents: newest first, filtered by type, at most limit
RECURSIVE GetRecent(_, _, _, _)
GetRecent(evs, i, limit, eventType) ==
    IF i = 0 \/ limit <= 0 THEN <<>>
    ELSE IF eventType # "" /\ evs[i].Type # eventType
         THEN GetRecent(evs, i - 1, limit, eventType)
         ELSE <<evs[i]>> \o GetRecent(evs, i - 1, limit - 1, eventType)

HandleGetRecentEvents(limit, eventType) ==
    GetRecent(recentEvents, Len(recentEvents), limit, eventType)

\* the consumer is followed through its first stream: a start is the first
\* one, or finds the stream running
FirstStart == streaming \/ \A s \in Streams : ~es[s].alloc

EvNext ==
    \/ \E f \in Filters : FirstStart /\ HandleStartEventStream(f)
    \/ HandleStopEventStream
    \/ \E s \in Streams : CancelStreamContext(s)
    \/ \E s \in Streams, ty \in EventTypes : Arrive(s, ty)
    \/ \E s \in Streams : connect(s)
    \/ \E s \in Streams : FilterRecv(s) \/ FilterSend(s)
    \/ \E p \in Streams : processEvents(p)

(***************************************************************************)
(* Scheduler                                                               *)
(***************************************************************************)
NoSeq == [ID |-> "", Commands |-> <<>>, Loop |-> FALSE, Running |-> FALSE,
          stopChan |-> "nil"]

\* failed: executeCommandSync has returned an error to the task; logged: the
\* task has written a log line
NoTask == [pc |-> "none", idx |-> 0, last |-> 0, failed |-> FALSE, logged |-> FALSE]

NoResult == [op |-> "none", id |-> "", err |-> FALSE, started |-> 0,
             preRunning |-> FALSE, preDone |-> FALSE]

NewScheduler ==
    /\ seqs = [o \in Objs |-> NoSeq]
    /\ sequences = [i \in SeqIds |-> 0]
    /\ task = [o \in Objs |-> NoTask]
    /\ ctxDone = FALSE
    /\ panicked = FALSE
    /\ schedResult = NoResult

\* an unrecovered panic ends the process: every goroutine and all state is gone
Crash(op, id) ==
    /\ panicked' = TRUE
    /\ seqs' = [o \in Objs |-> NoSeq]
    /\ sequences' = [i \in SeqIds |-> 0]
    /\ task' = [o \in Objs |-> NoTask]
    /\ ctxDone' = FALSE
    /\ schedResult' = [NoResult EXCEPT !.op = op, !.id = id, !.err = TRUE]

Allocated(o) == seqs[o].stopChan # "nil"

Registered(id) == sequences[id] # 0

\* the Sequence object the registry holds under id
Entry(id) == seqs[sequences[id]]

\* a registry test that forgets the Running flag
AlreadyRunning_AnyEntry(id) == Registered(id)

\* scene_cache.go:320  _, exists := s.sequences[seq.ID]; exists && s.sequences[seq.ID].Running
AlreadyRunning(id) == Registered(id) /\ Entry(id).Running

\* ExecuteSequence: a handler builds a fresh Sequence value and hands it over
ExecuteSequence(id, cmds, loop) ==
    /\ ~panicked
    /\ LET pre == [r |-> Registered(id) /\ Entry(id).Running,
                   d |-> Registered(id) /\ task[sequences[id]].pc = "done"]
       IN
       IF AlreadyRunning(id)
       THEN /\ schedResult' = [op |-> "ExecuteSequence", id |-> id, err |-> TRUE,
                               started |-> 0, preRunning |-> pre.r, preDone |-> pre.d]
            /\ UNCHANGED <<seqs, sequences, task, ctxDone, panicked>>
       ELSE /\ \E o \in Objs :
                 /\ ~Allocated(o)
                 /\ \A p \in Objs : p < o => Allocated(p)
                 /\ seqs' = [seqs EXCEPT ![o] =
                        [ID |-> id, Commands |-> cmds, Loop |-> loop,
                         Running |-> TRUE, stopChan |-> "open"]]
                 /\ sequences' = [sequences EXCEPT ![id] = o]
                 /\ task' = [task EXCEPT ![o] = [NoTask EXCEPT !.pc = "check", !.idx = 1]]
                 /\ schedResult' = [op |-> "ExecuteSequence", id |-> id, err |-> FALSE,
                                    started |-> o, preRunning |-> pre.r, preDone |-> pre.d]
            /\ UNCHANGED <<ctxDone, panicked>>
    /\ UNCHANGED outsideSched

\* scene_cache.go:344  seq.Running && seq.stopChan != nil
ShouldClose(s) == s.Running /\ s.stopChan # "nil"

\* StopSequence: close the stop channel of the registered entry and clear Running
StopSequence(id) ==
    /\ ~panicked
    /\ IF ~Registered(id)
       THEN /\ schedResult' = [NoResult EXCEPT !.op = "StopSequence", !.id = id, !.err = TRUE]
            /\ UNCHANGED <<seqs, sequences, task, ctxDone, panicked>>
       ELSE LET o == sequences[id] IN
            IF ShouldClose(seqs[o])
            THEN IF seqs[o].stopChan = "closed"
                 THEN Crash("StopSequence", id)
                 ELSE /\ seqs' = [seqs EXCEPT ![o].stopChan = "closed",
                                              ![o].Running = FALSE]
                      /\ schedResult' = [NoResult EXCEPT !.op = "StopSequence", !.id = id]
                      /\ UNCHANGED <<sequences, task, ctxDone, panicked>>
            ELSE /\ schedResult' = [NoResult EXCEPT !.op = "StopSequence", !.id = id]
                 /\ UNCHANGED <<seqs, sequences, task, ctxDone, panicked>>
    /\ UNCHANGED outsideSched

\* Stop: cancel the scheduler context and close the stop channel of every
\* registered sequence that is marked running (Running is left as it is)
Stop ==
    /\ ~panicked
    /\ LET hit == {sequences[i] : i \in {j \in SeqIds : Registered(j) /\ ShouldClose(Entry(j))}}
       IN
       IF \E o \in hit : seqs[o].stopChan = "closed"
       THEN Crash("Stop", "")
       ELSE /\ ctxDone' = TRUE
            /\ seqs' = [o \in Objs |->
                  IF o \in hit THEN [seqs[o] EXCEPT !.stopChan = "closed"] ELSE seqs[o]]
            /\ schedResult' = [NoResult EXCEPT !.op = "Stop"]
            /\ UNCHANGED <<sequences, task, panicked>>
    /\ UNCHANGED outsideSched

\* a stop signal the task's select can receive: its own stop channel or the context
Signalled(o) == seqs[o].stopChan = "closed" \/ ctxDone

\* runSequence, head of the inner loop (scene_cache.go:374-382): the range test
\* and the non-blocking select on stopChan and ctx.Done()
RunCheck(o) ==
    /\ ~panicked
    /\ task[o].pc = "check"
    /\ IF task[o].idx > Len(seqs[o].Commands)
       THEN task' = [task EXCEPT ![o].pc = "loopend"]
       ELSE IF Signalled(o)
            THEN task' = [task EXCEPT ![o].pc = "defer"]
            ELSE task' = [task EXCEPT ![o].pc = "sleep"]
    /\ UNCHANGED <<seqs, sequences, ctxDone, panicked, schedResult>>
    /\ UNCHANGED outsideSched

\* v, ok := params[key].(type)
TypedParam(params, key, type) ==
    IF \E p \in params : p.key = key /\ p.type = type
    THEN LET p == CHOOSE q \in params : q.key = key /\ q.type = type
         IN  [ok |-> TRUE, num |-> p.num, str |-> p.str]
    ELSE [ok |-> FALSE, num |-> 0, str |-> ""]

\* executeLightCommand and executeGroupCommand: the error returned before any
\* call of the client, "" when the client is called
executeTargetCommand(kind, cmd) ==
    CASE cmd.Action \in {"on", "off"} -> ""
      [] cmd.Action = "brightness" ->
            IF TypedParam(cmd.Params, "brightness", "float64").ok
            THEN "" ELSE "brightness parameter required"
      [] cmd.Action = "color" ->
            IF TypedParam(cmd.Params, "color", "string").ok
            THEN "" ELSE "color parameter required"
      [] OTHER -> "unknown " \o kind \o " action"

\* executeSceneCommand
executeSceneCommand(cmd) ==
    IF cmd.Action \in {"recall", "activate"} THEN "" ELSE "unknown scene action"

\* the call of the client a command ends in: method, target and argument
ClientMethod(cmd) ==
    LET kind == IF cmd.Type = "light" THEN "Light" ELSE "Group"
    IN  CASE cmd.Type = "scene" ->
                [op |-> "ActivateScene", target |-> cmd.Target, num |-> 0, str |-> ""]
          [] cmd.Action = "on" ->
                [op |-> "TurnOn" \o kind, target |-> cmd.Target, num |-> 0, str |-> ""]
          [] cmd.Action = "off" ->
                [op |-> "TurnOff" \o kind, target |-> cmd.Target, num |-> 0, str |-> ""]
          [] cmd.Action = "brightness" ->
                [op |-> "Set" \o kind \o "Brightness", target |-> cmd.Target,
                 num |-> TypedParam(cmd.Params, "brightness", "float64").num, str |-> ""]
          [] cmd.Action = "color" ->
                [op |-> "Set" \o kind \o "Color", target |-> cmd.Target, num |-> 0,
                 str |-> TypedParam(cmd.Params, "color", "string").str]

\* executeCommandSync: the error returned without a REST call, "" when the
\* command is handed to the client
executeCommandSync(cmd) ==
    CASE cmd.Type \in {"light", "group"} -> executeTargetCommand(cmd.Type, cmd)
      [] cmd.Type = "scene" -> executeSceneCommand(cmd)
      [] OTHER -> "unknown command type"

\* runSequence, the delay (scene_cache.go:385-393): with Delay > 0 a select on the
\* timer, stopChan and ctx.Done(); any ready case may be taken.  Then
\* executeCommandSync is called (scene_cache.go:396-398): it makes a REST call
\* or returns an error at once; runSequence does not look at what it returns.
RunSleep(o) ==
    /\ ~panicked
    /\ task[o].pc = "sleep"
    /\ LET cmd == seqs[o].Commands[task[o].idx] IN
       \/ /\ cmd.Delay > 0
          /\ Signalled(o)
          /\ task' = [task EXCEPT ![o].pc = "defer"]
       \/ IF executeCommandSync(cmd) = ""
          THEN task' = [task EXCEPT ![o].pc = "rest", ![o].last = task[o].idx]
          ELSE task' = [task EXCEPT ![o].pc = "check", ![o].last = task[o].idx,
                                    ![o].idx = task[o].idx + 1, ![o].failed = TRUE]
    /\ UNCHANGED <<seqs, sequences, ctxDone, panicked, schedResult>>
    /\ UNCHANGED outsideSched

\* runSequence, executeCommandSync returns (scene_cache.go:396-398): the REST
\* call has answered or its 5-second timeout has expired
RunRestReturn(o) ==
    /\ ~panicked
    /\ task[o].pc = "rest"
    /\ task' = [task EXCEPT ![o].pc = "check", ![o].idx = task[o].idx + 1]
    /\ UNCHANGED <<seqs, sequences, ctxDone, panicked, schedResult>>
    /\ UNCHANGED outsideSched

\* runSequence, end of one pass (scene_cache.go:401-404)
RunLoopEnd(o) ==
    /\ ~panicked
    /\ task[o].pc = "loopend"
    /\ IF seqs[o].Loop
       THEN task' = [task EXCEPT ![o].pc = "check", ![o].idx = 1]
       ELSE task' = [task EXCEPT ![o].pc = "defer"]
    /\ UNCHANGED <<seqs, sequences, ctxDone, panicked, schedResult>>
    /\ UNCHANGED outsideSched

\* runSequence, the deferred function (scene_cache.go:367-371)
RunDefer(o) ==
    /\ ~panicked
    /\ task[o].pc = "defer"
    /\ seqs' = [seqs EXCEPT ![o].Running = FALSE]
    /\ task' = [task EXCEPT ![o].pc = "done"]
    /\ UNCHANGED <<sequences, ctxDone, panicked, schedResult>>
    /\ UNCHANGED outsideSched

runSequence(o) ==
    \/ RunCheck(o)
    \/ RunSleep(o)
    \/ RunRestReturn(o)
    \/ RunLoopEnd(o)
    \/ RunDefer(o)

(***************************************************************************)
(* Effects and brightness setters: src/unnamed/part_012 (the effect        *)
(* constructors), src/mcp/scheduler.go and src/mcp/mcp.go (the handlers)   *)
(*                                                                         *)
(* One tool call is followed at a time, with its sequence running to its   *)
(* end without a stop: what is recorded is every wait of runSequence and   *)
(* every call of the client, in the order they happen.                     *)
(***************************************************************************)
NoArgs == [color |-> "", other |-> "", count |-> 0, ms |-> 0, min |-> 0, max |-> 0]

NoEffect == [tool |-> "", args |-> NoArgs, Commands |-> <<>>, idx |-> 0, pc |-> "idle"]

NoEffectYet ==
    /\ effect = NoEffect
    /\ wire = <<>>

HexInputs == {"#FF0000", "#FFFFFF"}

DurationInputs == {100, 200}

BrightnessInputs == {0 - 1, 0, 50, 100, 150}

\* (min_brightness, max_brightness) of pulse_effect; their difference is a
\* multiple of 5, so every step of the fade is a whole number
PulseRanges == {<<10, 100>>, <<0, 150>>}

RECURSIVE Repeat(_, _)
Repeat(q, n) == IF n <= 0 THEN <<>> ELSE q \o Repeat(q, n - 1)

\* CreateFlashEffect: flashCount times colour, on, off
CreateFlashEffect(targetID, color, flashCount, flashDuration) ==
    [Name |-> "Flash",
     Commands |-> Repeat(<<Command("light", "color", targetID, StringParam("color", color), 0),
                           Command("light", "on", targetID, {}, flashDuration),
                           Command("light", "off", targetID, {}, flashDuration)>>,
                         flashCount),
     Loop |-> FALSE]

\* CreateStrobeEffect (part_012:128-164): the colour, then iterations times
\* on, off, where iterations = duration / (strobeRate * 2)
CreateStrobeEffect(targetID, color, strobeRate, duration) ==
    [Name |-> "Strobe",
     Commands |-> <<Command("light", "color", targetID, StringParam("color", color), 0)>>
                  \o Repeat(<<Command("light", "on", targetID, {}, strobeRate),
                              Command("light", "off", targetID, {}, strobeRate)>>,
                            duration \div (strobeRate * 2)),
     Loop |-> FALSE]

\* one brightness step of CreatePulseEffect
PulseStep(targetID, lo, hi, j, stepDuration) ==
    Command("light", "brightness", targetID,
            FloatParam("brightness", lo + ((hi - lo) * j) \div 5), stepDuration)

\* CreatePulseEffect: per pulse five steps up (j = 0..4) and five down (j = 5..1)
CreatePulseEffect(targetID, minBrightness, maxBrightness, pulseDuration, pulseCount) ==
    LET d == pulseDuration \div 10
        up == [j \in 1..5 |-> PulseStep(targetID, minBrightness, maxBrightness, j - 1, d)]
        down == [j \in 1..5 |-> PulseStep(targetID, minBrightness, maxBrightness, 6 - j, d)]
    IN  [Name |-> "Pulse", Commands |-> Repeat(up \o down, pulseCount), Loop |-> FALSE]

\* CreateAlertEffect: the brightness values are untyped constants, so they are
\* stored in Params as int
CreateAlertEffect(targetID, alertColor, normalColor) ==
    [Name |-> "Alert",
     Commands |-> <<Command("light", "color", targetID, StringParam("color", alertColor), 0),
                    Command("light", "brightness", targetID, IntParam("brightness", 100), 100),
                    Command("light", "brightness", targetID, IntParam("brightness", 20), 100),
                    Command("light", "brightness", targetID, IntParam("brightness", 100), 100),
                    Command("light", "brightness", targetID, IntParam("brightness", 20), 100),
                    Command("light", "brightness", targetID, IntParam("brightness", 100), 100),
                    Command("light", "color", targetID, StringParam("color", normalColor), 500),
                    Command("light", "brightness", targetID, IntParam("brightness", 50), 0)>>,
     Loop |-> FALSE]

\* the sequences custom_sequence is called with
CustomLists ==
    {<<Command("light", "brightness", "L", FloatParam("brightness", 150), 0)>>,
     <<Command("group", "brightness", "G", FloatParam("brightness", 50), 100),
       Command("scene", "recall", "S", {}, 0)>>}

\* a handler hands its sequence to ExecuteSequence, which starts runSequence
StartEffect(tool, args, seq) ==
    /\ effect.pc \in {"idle", "done"}
    /\ effect' = [tool |-> tool, args |-> args, Commands |-> seq.Commands, idx |-> 1,
                  pc |-> "run"]
    /\ wire' = <<>>
    /\ UNCHANGED outsideEffects

HandleFlashEffect(color, flashCount, ms) ==
    StartEffect("flash_effect", [NoArgs EXCEPT !.color = color, !.count = flashCount, !.ms = ms],
                CreateFlashEffect("L", color, flashCount, ms))

\* strobe_rate_ms and duration_ms of strobe_effect
StrobeRates == {0, 100}

StrobeDurations == {0, 400}

\* HandleStrobeEffect (scheduler.go:148-182): strobe_rate_ms and duration_ms
\* are taken as they come; the integer division in CreateStrobeEffect panics
\* on a divisor of 0, in the goroutine of the tool call
HandleStrobeEffect(color, strobeRate, duration) ==
    IF strobeRate * 2 = 0
    THEN /\ effect.pc \in {"idle", "done"}
         /\ effect' = [NoEffect EXCEPT !.tool = "strobe_effect",
                                       !.args = [NoArgs EXCEPT !.color = color,
                                                               !.ms = duration],
                                       !.pc = "panic"]
         /\ wire' = <<>>
         /\ UNCHANGED outsideEffects
    ELSE StartEffect("strobe_effect",
                     [NoArgs EXCEPT !.color = color, !.count = strobeRate, !.ms = duration],
                     CreateStrobeEffect("L", color, strobeRate, duration))

HandlePulseEffect(lo, hi) ==
    StartEffect("pulse_effect", [NoArgs EXCEPT !.min = lo, !.max = hi, !.count = 1, !.ms = 1000],
                CreatePulseEffect("L", lo, hi, 1000, 1))

HandleAlertEffect(alertColor, normalColor) ==
    StartEffect("alert_effect", [NoArgs EXCEPT !.color = alertColor, !.other = normalColor],
                CreateAlertEffect("L", alertColor, normalColor))

HandleCustomSequence(commands) ==
    StartEffect("custom_sequence", NoArgs, [Name |-> "Custom Sequence", Commands |-> commands,
                                           Loop |-> FALSE])

Wait(ms) == [op |-> "wait", target |-> "", num |-> ms, str |-> ""]

\* runSequence on a sequence nobody stops: the delay of the command, then
\* executeCommandSync (scene_cache.go:385-398); after the last command the
\* task returns (scene_cache.go:401-403)
RunEffectCommand ==
    /\ effect.pc = "run"
    /\ IF effect.idx > Len(effect.Commands)
       THEN /\ effect' = [effect EXCEPT !.pc = "done"]
            /\ UNCHANGED wire
       ELSE LET cmd == effect.Commands[effect.idx] IN
            /\ effect' = [effect EXCEPT !.idx = effect.idx + 1]
            /\ wire' = wire \o (IF cmd.Delay > 0 THEN <<Wait(cmd.Delay)>> ELSE <<>>)
                            \o (IF executeCommandSync(cmd) = ""
                                THEN <<ClientMethod(cmd)>> ELSE <<>>)
    /\ UNCHANGED outsideEffects

\* a handler that makes at most one call of the client and returns
OneCall(tool, b, ok, call) ==
    /\ effect.pc \in {"idle", "done"}
    /\ effect' = [NoEffect EXCEPT !.tool = tool, !.args = [NoArgs EXCEPT !.max = b],
                                  !.pc = "done"]
    /\ wire' = IF ok THEN <<call>> ELSE <<>>
    /\ UNCHANGED outsideEffects

\* HandleLightBrightness (mcp.go:57-81)
HandleLightBrightness(b) ==
    OneCall("light_brightness", b, ~(b < 0 \/ b > 100),
            [op |-> "SetLightBrightness", target |-> "L", num |-> b, str |-> ""])

\* HandleGroupBrightness (mcp.go:193-217)
HandleGroupBrightness(b) ==
    OneCall("group_brightness", b, ~(b < 0 \/ b > 100),
            [op |-> "SetGroupBrightness", target |-> "G", num |-> b, str |-> ""])

\* color arguments: a name in capitals, a hex code in small letters, a word
\* that names no colour, a hex code that is too short
ColorArgs == {"RED", "#1a2b3c", "banana", "#FF00"}

\* HandleLightColor (mcp.go:84-114)
HandleLightColor(color) ==
    LET hexColor == IF namedColorToHex(color) = "" THEN color ELSE namedColorToHex(color)
    IN  /\ effect.pc \in {"idle", "done"}
        /\ effect' = [NoEffect EXCEPT !.tool = "light_color",
                                      !.args = [NoArgs EXCEPT !.color = color],
                                      !.pc = "done"]
        /\ wire' = IF isValidHexColor(hexColor)
                   THEN <<[op |-> "SetLightColor", target |-> "L", num |-> 0,
                           str |-> hexColor]>>
                   ELSE <<>>
        /\ UNCHANGED outsideEffects

\* the value strings batch_commands is given for a brightness
BrightnessStrings == {"-1", "0", "50", "100", "150"}

\* one brightness command of a batch, run by executeBatchCommand
BatchBrightness(action, value) ==
    LET r == executeBatchCommand([action |-> action, value |-> value], FALSE, TRUE)
    IN  OneCall("batch_commands", ParseFloat(value).f, r.call # NoCall,
                [op |-> r.call.op, target |-> IF action = "light_brightness" THEN "L" ELSE "G",
                 num |-> r.call.num, str |-> r.call.str])

EffectNext ==
    \/ \E c \in HexInputs \cup {"banana"}, n \in 0..MaxFlashCount, ms \in DurationInputs :
          HandleFlashEffect(c, n, ms)
    \/ \E c \in HexInputs, r \in StrobeRates, d \in StrobeDurations :
          HandleStrobeEffect(c, r, d)
    \/ \E r \in PulseRanges : HandlePulseEffect(r[1], r[2])
    \/ \E a, n \in HexInputs : HandleAlertEffect(a, n)
    \/ \E q \in CustomLists : HandleCustomSequence(q)
    \/ RunEffectCommand
    \/ \E b \in BrightnessInputs : HandleLightBrightness(b)
    \/ \E b \in BrightnessInputs : HandleGroupBrightness(b)
    \/ \E a \in {"light_brightness", "group_brightness"}, v \in BrightnessStrings :
          BatchBrightness(a, v)
    \/ \E c \in ColorArgs : HandleLightColor(c)

(***************************************************************************)
(* CreateGroupEffect: src/unnamed/part_012:258-275                         *)
(*                                                                         *)
(* Command.Params is a Go map, a reference: a Command here holds the       *)
(* number of its map (0: nil) and the maps are kept apart, so that two     *)
(* commands can hold the same map.                                         *)
(***************************************************************************)
\* the sequences CreateGroupEffect is applied to
GroupInputs ==
    {CreateFlashEffect("L", "#FF0000", 1, 100).Commands,
     <<Command("scene", "recall", "S", {}, 0),
       Command("light", "brightness", "L", FloatParam("brightness", 50), 100)>>}

GroupIds == {"G"}

NoGroupEffect == [pc |-> "idle", maps |-> <<>>, effect |-> <<>>, group |-> <<>>,
                  effectWas |-> <<>>, groupWas |-> <<>>, changed |-> {}, changes |-> 0]

NoGroupEffectYet == groupify = NoGroupEffect

\* the maps of a sequence as its constructor leaves them: one for each
\* command built with Params, none for a command built without
MapsOf(commands) == [i \in 1..Len(commands) |-> commands[i].Params]

RefsOf(commands) ==
    [i \in 1..Len(commands) |->
        [commands[i] EXCEPT !.Params = IF commands[i].Params = {} THEN 0 ELSE i]]

\* what a sequence says, with every map read out
View(maps, commands) ==
    [i \in 1..Len(commands) |->
        [commands[i] EXCEPT !.Params = IF commands[i].Params = 0 THEN {}
                                       ELSE maps[commands[i].Params]]]

\* CreateGroupEffect, the loop body: groupCmd := cmd copies the struct, and
\* with it the reference to the map
GroupCommand(cmd, groupID) ==
    IF cmd.Type = "light"
    THEN [cmd EXCEPT !.Type = "group", !.Target = groupID]
    ELSE cmd

CreateGroupEffect(commands, groupID) ==
    [i \in 1..Len(commands) |-> GroupCommand(commands[i], groupID)]

\* a deep clone: what the commands of seq are when rewritten one by one
Rewritten(view, groupID) ==
    [i \in 1..Len(view) |->
        IF view[i].Type = "light"
        THEN [view[i] EXCEPT !.Type = "group", !.Target = groupID]
        ELSE view[i]]

CallCreateGroupEffect(commands, groupID) ==
    /\ groupify.pc = "idle"
    /\ groupify' = [pc |-> "cloned",
                    maps |-> MapsOf(commands),
                    effect |-> RefsOf(commands),
                    group |-> CreateGroupEffect(RefsOf(commands), groupID),
                    effectWas |-> commands,
                    groupWas |-> View(MapsOf(commands),
                                      CreateGroupEffect(RefsOf(commands), groupID)),
                    changed |-> {}, changes |-> 0]
    /\ UNCHANGED outsideGroupify

Sides == {"effect", "group"}

\* the entries a caller writes into Params afterwards
ParamWrites == FloatParam("brightness", 1) \cup StringParam("color", "#0000FF")

\* seq.Commands[i].Params[key] = value, on the sequence or on its clone
SetParam(side, i, entry) ==
    /\ groupify.pc = "cloned"
    /\ groupify.changes < MaxChanges
    /\ i \in 1..Len(groupify[side])
    /\ groupify[side][i].Params # 0
    /\ LET m == groupify[side][i].Params IN
       groupify' = [groupify EXCEPT
            !.maps[m] = {e \in groupify.maps[m] : e.key # entry.key} \cup {entry},
            !.changed = groupify.changed \cup {side},
            !.changes = groupify.changes + 1]
    /\ UNCHANGED outsideGroupify

\* seq.Commands[i].Delay = d, on the sequence or on its clone
SetDelay(side, i, d) ==
    /\ groupify.pc = "cloned"
    /\ groupify.changes < MaxChanges
    /\ i \in 1..Len(groupify[side])
    /\ groupify' = [groupify EXCEPT
            ![side][i].Delay = d,
            !.changed = groupify.changed \cup {side},
            !.changes = groupify.changes + 1]
    /\ UNCHANGED outsideGroupify

GroupifyNext ==
    \/ \E q \in GroupInputs, g \in GroupIds : CallCreateGroupEffect(q, g)
    \/ \E side \in Sides : \E i \in 1..Len(groupify[side]), e \in ParamWrites :
          SetParam(side, i, e)
    \/ \E side \in Sides : \E i \in 1..Len(groupify[side]) : SetDelay(side, i, 7)

(***************************************************************************)
(* The command line: src/cmd/lights.go (the light commands) and            *)
(* src/unnamed/part_014 (resolveLightID)                                   *)
(*                                                                         *)
(* A name or an id is a sequence of characters, so that the comparisons    *)
(* of resolveLightID are computed on it.  Every run of a command is a      *)
(* process of its own: it calls the bridge for the lights, then for the    *)
(* change, and nothing runs beside it.                                     *)
(***************************************************************************)
\* length of a resource id of the bridge, a UUID
UuidLen == 36

Dashes == {9, 14, 19, 24}

Digits == <<"1", "2", "3", "4">>

\* the id of the i-th light of the bridge
LightID(i) == [k \in 1..UuidLen |-> IF k \in Dashes THEN "-" ELSE Digits[i]]

Lamp == <<"L", "a", "m", "p">>

LampTwo == <<"L", "a", "m", "p", "2">>

Desk == <<"D", "e", "s", "k">>

LightNames == {Lamp, LampTwo, Desk}

\* what the bridge can hold: up to MaxLights lights with names of LightNames
BridgeLights ==
    UNION {[1..n -> LightNames] : n \in 0..MaxLights}

Light(i, name) == [ID |-> LightID(i), Name |-> name]

\* GetLights: the lights with their ids, in the order of the bridge
GetLights == [i \in 1..Len(lights) |-> Light(i, lights[i])]

\* the first argument of a command: a name, part of a name, no name, an id
LightArgs == {Lamp, <<"l", "a", "m", "p">>, <<"a", "m", "p">>, <<"x">>, LightID(1)}

ColorInputs == {"red", "#00FF00"}

\* strings.ToLower on a name, letter by letter
ToLowerChar(c) ==
    CASE c = "L" -> "l"
      [] c = "D" -> "d"
      [] OTHER -> c

ToLowerName(str) == [k \in 1..Len(str) |-> ToLowerChar(str[k])]

\* strings.EqualFold
EqualFold(a, b) == ToLowerName(a) = ToLowerName(b)

\* strings.Contains
Contains(str, substr) ==
    \E k \in 0..(Len(str) - Len(substr)) :
        SubSeq(str, k + 1, k + Len(substr)) = substr

\* the lights the first loop of resolveLightID stops at
ExactMatch(all, nameOrID) ==
    {k \in 1..Len(all) : EqualFold(all[k].Name, nameOrID)}

Min(S) == CHOOSE x \in S : \A y \in S : x <= y

IsPartial(light, nameOrID) == Contains(ToLowerName(light.Name), ToLowerName(nameOrID))

\* formatMatches: one line per match, with its name and its id
formatMatches(matches) == [k \in 1..Len(matches) |->
                              [Name |-> matches[k].Name, ID |-> matches[k].ID]]

NoMatches == <<>>

\* resolveLightID, given what GetLights answers: the id, or the error and the
\* matches its message lists
resolveLightID(getOk, nameOrID) ==
    IF Contains(nameOrID, <<"-">>) /\ Len(nameOrID) > 30
    THEN [id |-> nameOrID, err |-> "", listed |-> NoMatches]
    ELSE IF ~getOk
    THEN [id |-> <<>>, err |-> "failed to get lights", listed |-> NoMatches]
    ELSE LET all == GetLights
             exact == ExactMatch(all, nameOrID)
             matches == SelectSeq(all, LAMBDA l : IsPartial(l, nameOrID))
         IN  IF exact # {}
             THEN [id |-> all[Min(exact)].ID, err |-> "", listed |-> NoMatches]
             ELSE IF Len(matches) = 0
             THEN [id |-> <<>>, err |-> "no light found matching", listed |-> NoMatches]
             ELSE IF Len(matches) = 1
             THEN [id |-> matches[1].ID, err |-> "", listed |-> NoMatches]
             ELSE [id |-> <<>>, err |-> "multiple lights match",
                   listed |-> formatMatches(matches)]

NoCli == [cmd |-> "", arg |-> <<>>, got |-> FALSE, err |-> "", listed |-> NoMatches,
          calls |-> <<>>]

NoCommandYet ==
    /\ lights = <<>>
    /\ cli = NoCli

\* a light command: the name is resolved, then the client is called once
RunLightCommand(cmd, nameOrID, call, getOk, setOk, failure) ==
    LET r == resolveLightID(getOk, nameOrID)
        ran == [NoCli EXCEPT !.cmd = cmd, !.arg = nameOrID, !.got = getOk]
    IN  /\ cli' = IF r.err # ""
                  THEN [ran EXCEPT !.err = r.err, !.listed = r.listed]
                  ELSE [ran EXCEPT !.calls = <<[call EXCEPT !.target = r.id]>>,
                                   !.err = IF setOk THEN "" ELSE failure]
        /\ UNCHANGED lights
        /\ UNCHANGED outsideCli

lightOnCmd(nameOrID, getOk, setOk) ==
    RunLightCommand("on", nameOrID,
                    [op |-> "TurnOnLight", target |-> <<>>, str |-> ""],
                    getOk, setOk, "failed to turn on light")

lightColorCmd(nameOrID, color, getOk, setOk) ==
    LET hexColor == IF namedColorToHex(color) = "" THEN color
                    ELSE namedColorToHex(color)
    IN  RunLightCommand("color", nameOrID,
                        [op |-> "SetLightColor", target |-> <<>>, str |-> hexColor],
                        getOk, setOk, "failed to set color")

\* the id of the i-th resource of a kind: "r" room, "z" zone, "g" the
\* grouped light of a room, "h" the grouped light of a zone, "d" a device
ResourceID(kind, i) ==
    [k \in 1..UuidLen |-> IF k \in Dashes THEN "-" ELSE IF k = 1 THEN kind ELSE Digits[i]]

Den == <<"d", "e", "n">>

Deck == <<"d", "e", "c", "k">>

GroupNames == {Den, Deck}

ResourceIdentifier(rid, rtype) == [RID |-> rid, RType |-> rtype]

\* a room or a zone as GetRooms and GetZones return it
Room(kind, i, name, grouped) ==
    [ID |-> ResourceID(kind, i), Name |-> name,
     Services |-> <<ResourceIdentifier(ResourceID("d", i), "device")>>
                    \o (IF grouped
                        THEN <<ResourceIdentifier(ResourceID(IF kind = "r" THEN "g" ELSE "h", i),
                                                  "grouped_light")>>
                        ELSE <<>>)]

\* what the bridge can hold: rooms with or without a grouped light, zones
BridgeGroups ==
    {[rooms |-> [i \in 1..n |-> Room("r", i, names[i], grouped[i])],
      zones |-> [i \in 1..m |-> Room("z", i, znames[i], TRUE)]] :
        n \in 0..MaxRooms, m \in 0..MaxZones,
        names \in [1..MaxRooms -> GroupNames], grouped \in [1..MaxRooms -> BOOLEAN],
        znames \in [1..MaxZones -> GroupNames]}

NoGroupsYet == groups = [rooms |-> <<>>, zones |-> <<>>]

GroupArgs == {Den, <<"D", "e", "n">>, <<"d", "e">>, <<"x">>, ResourceID("g", 1)}

\* the RID of the first grouped_light service of a room (<<>>: it has none)
GroupedLight(room) ==
    LET at == {k \in 1..Len(room.Services) : room.Services[k].RType = "grouped_light"}
    IN  IF at = {} THEN <<>> ELSE room.Services[Min(at)].RID

\* resolveGroupID, given what GetRooms answers
resolveGroupID(getOk, nameOrID) ==
    IF Contains(nameOrID, <<"-">>) /\ Len(nameOrID) > 30
    THEN [id |-> nameOrID, err |-> "", listed |-> NoMatches]
    ELSE IF ~getOk
    THEN [id |-> <<>>, err |-> "failed to get rooms", listed |-> NoMatches]
    ELSE LET rooms == groups.rooms
             exact == {k \in ExactMatch(rooms, nameOrID) : GroupedLight(rooms[k]) # <<>>}
             found == SelectSeq(rooms, LAMBDA room : /\ IsPartial(room, nameOrID)
                                                    /\ GroupedLight(room) # <<>>)
             matches == [k \in 1..Len(found) |->
                            [ID |-> found[k].ID, Name |-> found[k].Name,
                             GroupID |-> GroupedLight(found[k])]]
         IN  IF exact # {}
             THEN [id |-> GroupedLight(rooms[Min(exact)]), err |-> "", listed |-> NoMatches]
             ELSE IF Len(matches) = 0
             THEN [id |-> <<>>, err |-> "no room/group found matching", listed |-> NoMatches]
             ELSE IF Len(matches) = 1
             THEN [id |-> matches[1].GroupID, err |-> "", listed |-> NoMatches]
             ELSE [id |-> <<>>, err |-> "multiple rooms match",
                   listed |-> [k \in 1..Len(matches) |->
                                  [Name |-> matches[k].Name, ID |-> matches[k].GroupID]]]

\* a group command: the name is resolved, then the client is called once
RunGroupCommand(cmd, nameOrID, op, getOk, setOk, failure) ==
    LET r == resolveGroupID(getOk, nameOrID)
        ran == [NoCli EXCEPT !.cmd = cmd, !.arg = nameOrID, !.got = getOk]
    IN  /\ cli' = IF r.err # ""
                  THEN [ran EXCEPT !.err = r.err, !.listed = r.listed]
                  ELSE [ran EXCEPT !.calls = <<[op |-> op, target |-> r.id, str |-> ""]>>,
                                   !.err = IF setOk THEN "" ELSE failure]
        /\ UNCHANGED lights
        /\ UNCHANGED outsideCli

groupOnCmd(nameOrID, getOk, setOk) ==
    RunGroupCommand("group on", nameOrID, "TurnOnGroup", getOk, setOk,
                    "failed to turn on group")

groupOffCmd(nameOrID, getOk, setOk) ==
    RunGroupCommand("group off", nameOrID, "TurnOffGroup", getOk, setOk,
                    "failed to turn off group")

(***************************************************************************)
(* AddLightToGroup: src/test_server.sh:556-658                             *)
(*                                                                         *)
(* The bridge has one room and one zone, each with its grouped light, and  *)
(* the grouped light of the whole home, which no room or zone owns.  The   *)
(* i-th light is the light service of the i-th device; one more light id   *)
(* belongs to no device.  A room holds devices, a zone holds lights.       *)
(***************************************************************************)
TheRoom == Room("r", 1, Den, TRUE)

TheZone == Room("z", 1, Deck, TRUE)

RoomGroup == GroupedLight(TheRoom)

ZoneGroup == GroupedLight(TheZone)

HomeGroup == ResourceID("b", 1)

\* GetGroups: the ids of the grouped lights
GetGroups == {RoomGroup, ZoneGroup, HomeGroup}

MemberLights == {LightID(i) : i \in 1..MaxLights}

StrayLight == LightID(MaxLights + 1)

\* GetDevices: the id of the device that has lightID among its services
DeviceOf(lightID) ==
    IF \E i \in 1..MaxLights : LightID(i) = lightID
    THEN ResourceID("d", CHOOSE i \in 1..MaxLights : LightID(i) = lightID)
    ELSE <<>>

\* the requests of AddLightToGroup, one of which may fail
AddFailures == {"none", "GetGroups", "GetRooms", "GetDevices", "GetZones", "Update"}

NoAdd == [groupID |-> <<>>, lightID |-> <<>>, before |-> <<>>, put |-> <<>>,
          to |-> "", err |-> ""]

NoMembers == [room |-> <<>>, zone |-> <<>>, last |-> NoAdd]

NoMembersYet == membership = NoMembers

\* the lists of at most n different elements of S
RECURSIVE Arrangements(_, _)
Arrangements(S, n) ==
    IF n = 0 THEN {<<>>}
    ELSE LET shorter == Arrangements(S, n - 1)
         IN  shorter \cup {Append(q, x) : q \in shorter, x \in S}

NoDuplicate(q) == \A j, k \in 1..Len(q) : q[j] = q[k] => j = k

\* the children the bridge holds: no resource twice
BridgeChildren(S, rtype) ==
    {[k \in 1..Len(q) |-> ResourceIdentifier(q[k], rtype)] :
        q \in {a \in Arrangements(S, MaxChildren - 1) : NoDuplicate(a)}}

HasChild(children, rid, rtype) ==
    \E k \in 1..Len(children) : children[k].RType = rtype /\ children[k].RID = rid

\* the zone branch (test_server.sh:639-652): the Children of the update
AddToZone(children, lightID) == Append(children, ResourceIdentifier(lightID, "light"))

\* the room branch (test_server.sh:596-627): the Children of the update (<<>>:
\* no update is sent)
AddToRoom(children, deviceID) ==
    IF HasChild(children, deviceID, "device") THEN <<>>
    ELSE Append(children, ResourceIdentifier(deviceID, "device"))

\* what AddLightToGroup returns and the update it sends
AddResult(groupID, lightID, fail) ==
    LET failed == [NoAdd EXCEPT !.err = "request failed"] IN
    IF fail = "GetGroups" THEN failed
    ELSE IF groupID \notin GetGroups THEN [NoAdd EXCEPT !.err = "group not found"]
    ELSE IF fail = "GetRooms" THEN failed
    ELSE IF groupID = RoomGroup
    THEN IF fail = "GetDevices" THEN failed
         ELSE IF DeviceOf(lightID) = <<>>
         THEN [NoAdd EXCEPT !.err = "device containing light not found"]
         ELSE [NoAdd EXCEPT !.to = "room",
                            !.put = AddToRoom(membership.room, DeviceOf(lightID)),
                            !.err = IF /\ fail = "Update"
                                       /\ AddToRoom(membership.room, DeviceOf(lightID)) # <<>>
                                    THEN "request failed" ELSE ""]
    ELSE IF fail = "GetZones" THEN failed
    ELSE IF groupID = ZoneGroup
    THEN [NoAdd EXCEPT !.to = "zone",
                       !.put = AddToZone(membership.zone, lightID),
                       !.err = IF fail = "Update" THEN "request failed" ELSE ""]
    ELSE [NoAdd EXCEPT !.err = "room or zone for group not found"]

\* AddLightToGroup; the bridge keeps the children of an update it accepts
AddLightToGroup(groupID, lightID, fail) ==
    LET r == AddResult(groupID, lightID, fail)
        accepted == r.put # <<>> /\ r.err = ""
    IN  /\ Len(membership.room) < MaxChildren
        /\ Len(membership.zone) < MaxChildren
        /\ membership' = [room |-> IF accepted /\ r.to = "room" THEN r.put ELSE membership.room,
                       zone |-> IF accepted /\ r.to = "zone" THEN r.put ELSE membership.zone,
                       last |-> [r EXCEPT !.groupID = groupID, !.lightID = lightID,
                                          !.before = CASE r.to = "room" -> membership.room
                                                       [] r.to = "zone" -> membership.zone
                                                       [] OTHER -> <<>>]]
        /\ UNCHANGED outsideMembers

MemberNext ==
    \E groupID \in GetGroups \cup {ResourceID("b", 2)},
       lightID \in MemberLights \cup {StrayLight}, fail \in AddFailures :
        AddLightToGroup(groupID, lightID, fail)

GroupCliNext ==
    \/ \E n \in GroupArgs, getOk \in BOOLEAN, setOk \in BOOLEAN : groupOnCmd(n, getOk, setOk)
    \/ \E n \in GroupArgs, getOk \in BOOLEAN, setOk \in BOOLEAN : groupOffCmd(n, getOk, setOk)

CliNext ==
    \/ \E n \in LightArgs, getOk \in BOOLEAN, setOk \in BOOLEAN :
          lightOnCmd(n, getOk, setOk)
    \/ \E n \in LightArgs, c \in ColorInputs, getOk \in BOOLEAN, setOk \in BOOLEAN :
          lightColorCmd(n, c, getOk, setOk)

(***************************************************************************)
(* One streaming session: src/hue/entertainment.go                         *)
(*                                                                         *)
(* The session is followed with its clock, in milliseconds since Start,    *)
(* and with the bytes of the packets it writes.  The calls hold e.mu, so   *)
(* each is one step; the loop is a goroutine of its own.                   *)
(***************************************************************************)
\* an entertainment configuration: its channels, each with its id and the
\* lights that are its members
Channel(id, members) == [ChannelID |-> id, Members |-> members]

Configs == {<<>>,
            <<Channel(0, <<"a">>), Channel(1, <<"b">>)>>,
            <<Channel(258, <<"a", "b">>)>>}

\* 16-bit colour values
Bright == [Red |-> 65535, Green |-> 0, Blue |-> 0]

Dim == [Red |-> 257, Green |-> 514, Blue |-> 771]

EntertainmentUpdate(lightID, c) ==
    [LightID |-> lightID, Red |-> c.Red, Green |-> c.Green, Blue |-> c.Blue]

\* the update lists SendColors is called with; "z" is a light of no
\* configuration
UpdateLists ==
    {<<>>,
     <<EntertainmentUpdate("a", Bright)>>,
     <<EntertainmentUpdate("z", Bright)>>,
     <<EntertainmentUpdate("a", Bright), EntertainmentUpdate("z", Dim)>>,
     <<EntertainmentUpdate("b", Dim), EntertainmentUpdate("a", Bright)>>,
     <<EntertainmentUpdate("a", Bright), EntertainmentUpdate("a", Dim)>>}

\* update_rate_ms
RateInputs == {20}

\* []byte("HueStream")
HueStream == <<72, 117, 101, 83, 116, 114, 101, 97, 109>>

\* binary.LittleEndian.PutUint16
PutUint16(v) == <<v % 256, (v \div 256) % 256>>

\* colorData[lightID] after the loop that fills the map: the last update of
\* the light, or none
ColorOf_AlwaysMissing(updates, lightID) == [exists |-> FALSE, update |-> <<>>]

ColorOf(updates, lightID) ==
    LET at == {k \in 1..Len(updates) : updates[k].LightID = lightID}
    IN  IF at = {} THEN [exists |-> FALSE, update |-> <<>>]
        ELSE [exists |-> TRUE,
              update |-> updates[CHOOSE k \in at : \A j \in at : j <= k]]

\* the eight bytes written for one member of a channel
MemberBytes(channel, lightID, updates) ==
    LET found == ColorOf(updates, lightID)
        update == IF found.exists THEN found.update
                  ELSE [LightID |-> lightID, Red |-> 0, Green |-> 0, Blue |-> 0]
    IN  PutUint16(channel.ChannelID % 65536)
          \o PutUint16(update.Red) \o PutUint16(update.Green) \o PutUint16(update.Blue)

RECURSIVE MembersBytes(_, _, _)
MembersBytes(channel, k, updates) ==
    IF k > Len(channel.Members) THEN <<>>
    ELSE MemberBytes(channel, channel.Members[k], updates)
           \o MembersBytes(channel, k + 1, updates)

RECURSIVE ChannelsBytes(_, _, _)
ChannelsBytes(channels, k, updates) ==
    IF k > Len(channels) THEN <<>>
    ELSE MembersBytes(channels[k], 1, updates) \o ChannelsBytes(channels, k + 1, updates)

\* the packet sendUDPPacket builds, e.sequence having been incremented
PacketOf(config, sequence, updates) ==
    HueStream \o <<2, 0>> \o <<sequence>> \o <<0, 0>> \o <<1>> \o <<0>>
      \o ChannelsBytes(config, 1, updates)

NoFrame == [by |-> "none", updates |-> <<>>, packet |-> <<>>, err |-> ""]

\* ticker: the period the ticker of the loop was made with (0: not made yet)
\* ticks: the times at which the ticker has fired
\* setAt: the number of ticks before the last SetUpdateRate on the running
\* session (-1: none)
NoSession == [pc |-> "new", loop |-> "none", config |-> <<>>, updateRate |-> DefaultUpdateRate,
              ticker |-> 0, ticks |-> <<>>, setAt |-> 0 - 1, sequence |-> 0,
              sent |-> 0, last |-> NoFrame]

NoSessionYet == session = NoSession

\* sendUDPPacket; e.conn.Write fails on the connection that Stop has closed
sendUDPPacket(s, by, updates) ==
    LET sequence == (s.sequence + 1) % SequenceMod
        packet == PacketOf(s.config, sequence, updates)
    IN  [s EXCEPT !.sequence = sequence,
                  !.sent = @ + 1,
                  !.last = IF s.pc = "running"
                           THEN [by |-> by, updates |-> updates, packet |-> packet,
                                 err |-> ""]
                           ELSE [by |-> by, updates |-> updates, packet |-> <<>>,
                                 err |-> "use of closed network connection"]]

\* Start: the configuration is fetched, the socket opened, the loop started
StreamerStart(config, ok) ==
    /\ session.pc = "new"
    /\ session' = IF ok
                  THEN [session EXCEPT !.pc = "running", !.config = config,
                                       !.loop = "start"]
                  ELSE [session EXCEPT !.last = [NoFrame EXCEPT
                                          !.err = "failed to start entertainment mode"]]
    /\ UNCHANGED outsideSession

StreamerStop ==
    /\ session.pc = "running"
    /\ session' = [session EXCEPT !.pc = "stopped"]
    /\ UNCHANGED outsideSession

SetUpdateRate(rate) ==
    /\ session.updateRate # rate
    /\ session' = [session EXCEPT
                      !.updateRate = rate,
                      !.setAt = IF session.pc = "running" THEN Len(session.ticks) ELSE @]
    /\ UNCHANGED outsideSession

SendColors(updates) ==
    /\ session.sent < MaxFrames
    /\ session' = IF session.pc # "running"
                  THEN [session EXCEPT !.last = [by |-> "send", updates |-> updates,
                                                 packet |-> <<>>,
                                                 err |-> "streamer not running"]]
                  ELSE sendUDPPacket(session, "send", updates)
    /\ UNCHANGED outsideSession

\* ticker := time.NewTicker(e.updateRate)
NewTicker ==
    /\ session.loop = "start"
    /\ session' = [session EXCEPT !.loop = "select", !.ticker = session.updateRate]
    /\ UNCHANGED outsideSession

\* the time of the last tick, or of the making of the ticker
LastTick(s) == IF s.ticks = <<>> THEN 0 ELSE s.ticks[Len(s.ticks)]

\* case <-ticker.C: the keep-alive packet
LoopTick_Session ==
    /\ session.loop = "select"
    /\ session.sent < MaxFrames
    /\ session' = [sendUDPPacket(session, "tick", <<>>) EXCEPT
                      !.ticks = Append(@, LastTick(session) + session.ticker)]
    /\ UNCHANGED outsideSession

\* case <-e.stopChan
LoopReturn ==
    /\ session.loop = "select"
    /\ session.pc = "stopped"
    /\ session' = [session EXCEPT !.loop = "returned"]
    /\ UNCHANGED outsideSession

SessionNext ==
    \/ \E config \in Configs, ok \in BOOLEAN : StreamerStart(config, ok)
    \/ StreamerStop
    \/ \E rate \in RateInputs \cup {DefaultUpdateRate} : SetUpdateRate(rate)
    \/ \E updates \in UpdateLists : SendColors(updates)
    \/ NewTicker
    \/ LoopTick_Session
    \/ LoopReturn

(***************************************************************************)
(* GetSequences: src/mcp/scene_cache.go:353-363                            *)
(*                                                                         *)
(* The map GetSequences returns holds, for each id, the pointer the        *)
(* registry holds: here the number of the Sequence object.  Its caller     *)
(* owns the map and can take an entry out of it or write a field of a      *)
(* Sequence it finds in it.                                                *)
(***************************************************************************)
\* result: id -> Sequence object (0: no entry); writes: changes the caller made
NoSnapshot == [taken |-> FALSE, result |-> [i \in SeqIds |-> 0], writes |-> 0]

NoSnapshotYet == snapshot = NoSnapshot

\* result := make(map[string]*Sequence); for k, v := range s.sequences { result[k] = v }
GetSequences ==
    /\ ~panicked
    /\ snapshot' = [NoSnapshot EXCEPT !.taken = TRUE, !.result = sequences]
    /\ UNCHANGED schedVars
    /\ UNCHANGED outsideSched_Snapshot

\* delete(result, id) by the caller
DeleteFromSnapshot(id) ==
    /\ ~panicked
    /\ snapshot.taken
    /\ snapshot.result[id] # 0
    /\ snapshot.writes < MaxChanges
    /\ snapshot' = [snapshot EXCEPT !.result[id] = 0, !.writes = @ + 1]
    /\ UNCHANGED schedVars
    /\ UNCHANGED outsideSched_Snapshot

\* result[id].Running = running by the caller
SetSnapshotRunning(id, running) ==
    /\ ~panicked
    /\ snapshot.taken
    /\ snapshot.result[id] # 0
    /\ snapshot.writes < MaxChanges
    /\ snapshot' = [snapshot EXCEPT !.writes = @ + 1]
    /\ seqs' = [seqs EXCEPT ![snapshot.result[id]].Running = running]
    /\ UNCHANGED <<sequences, task, ctxDone, panicked, schedResult>>
    /\ UNCHANGED outsideSched_Snapshot

ListNext ==
    \/ \E id \in SeqIds, cmds \in CommandLists, loop \in BOOLEAN :
          ExecuteSequence(id, cmds, loop)
    \/ \E id \in SeqIds : StopSequence(id)
    \/ \E o \in Objs : runSequence(o)
    \/ GetSequences
    \/ \E id \in SeqIds : DeleteFromSnapshot(id)
    \/ \E id \in SeqIds, running \in BOOLEAN : SetSnapshotRunning(id, running)

(***************************************************************************)
(* The bridge client: src/client/hue.go                                    *)
(*                                                                         *)
(* An operation sends one request and reads one response.  A response is   *)
(* its HTTP status and its body, a JSON document with an errors array and  *)
(* a data array; of the data only the number of entries matters here.      *)
(***************************************************************************)
Statuses == {200, 207, 401, 500}

ErrorArrays == {<<>>, <<"Light not found">>, <<"device unreachable", "Light not found">>}

Responses ==
    {[status |-> st, body |-> [errors |-> e, data |-> n]] :
        st \in Statuses, e \in ErrorArrays, n \in 0..1}

NoError == [kind |-> "", code |-> 0, text |-> <<>>]

\* request: the body, or "HTTP <code>: <body>" for a status of 400 or more
request(resp) ==
    IF resp.status >= 400
    THEN [err |-> [kind |-> "HTTP", code |-> resp.status, text |-> resp.body], body |-> <<>>]
    ELSE [err |-> NoError, body |-> resp.body]

\* GetLight, GetGroup, GetScene: getJSON, then the errors array, then the data
GetOne(resp, missing) ==
    LET got == request(resp)
    IN  IF got.err # NoError THEN got.err
        ELSE IF Len(got.body.errors) > 0
        THEN [kind |-> "API error", code |-> 0, text |-> got.body.errors[1]]
        ELSE IF got.body.data = 0
        THEN [kind |-> missing, code |-> 0, text |-> <<>>]
        ELSE NoError

\* GetLights, GetGroups, GetScenes: getJSON, then the errors array
GetAll(resp) ==
    LET got == request(resp)
    IN  IF got.err # NoError THEN got.err
        ELSE IF Len(got.body.errors) > 0
        THEN [kind |-> "API error", code |-> 0, text |-> got.body.errors[1]]
        ELSE NoError

\* UpdateLight, UpdateGroup, ActivateScene: _, err := c.put(...); return err
Put(resp) == request(resp).err

Reads == {"GetLight", "GetLights", "GetGroups"}

Mutations == {"UpdateLight", "UpdateGroup", "ActivateScene"}

\* the error the operation returns (NoError: nil)
ClientReturns(op, resp) ==
    CASE op = "GetLight" -> GetOne(resp, "light not found")
      [] op \in {"GetLights", "GetGroups"} -> GetAll(resp)
      [] op \in Mutations -> Put(resp)

NoRequestYet == requests = <<>>

ClientOperation(op, resp) ==
    /\ Len(requests) < MaxRequests
    /\ requests' = Append(requests, [op |-> op, resp |-> resp,
                                     err |-> ClientReturns(op, resp)])
    /\ UNCHANGED outsideClient

ClientNext ==
    \/ \E op \in Reads, resp \in Responses : ClientOperation(op, resp)
    \/ \E op \in Mutations, resp \in Responses : ClientOperation(op, resp)

SchedNext ==
    \/ \E id \in SeqIds, cmds \in CommandLists, loop \in BOOLEAN :
          ExecuteSequence(id, cmds, loop)
    \/ \E id \in SeqIds : StopSequence(id)
    \/ Stop
    \/ \E o \in Objs : runSequence(o)

SchedInit == NewScheduler /\ InitEventManager /\ NewSceneCache /\ NoBatchYet /\ NoStreamers
             /\ NoEffectYet /\ NoGroupEffectYet /\ NoCommandYet /\ NoSessionYet
             /\ NoMembersYet
             /\ NoGroupsYet
             /\ NoRequestYet
             /\ NoSnapshotYet

SchedSpec == SchedInit /\ [][SchedNext]_vars

\* every goroutine that can take a step eventually takes one
FairSched == SchedSpec /\ \A o \in Objs : WF_vars(runSequence(o))

(***************************************************************************)
(* Scheduler claims                                                        *)
(***************************************************************************)
\* a task that has passed the stop check of a command and is waiting out its
\* delay or has its REST call in flight
Dispatching(o) == task[o].pc \in {"sleep", "rest"}

\* C1: for every sequence id, at most one background task is executing
\* commands for that id at any time, also after a stop and a restart of the id.
C1_OneTaskPerId ==
    \A i \in SeqIds :
        Cardinality({o \in Objs : seqs[o].ID = i /\ Dispatching(o)}) <= 1

\* C2: ExecuteSequence on an id whose registered entry is running returns an
\* error and starts no task; on an id whose task has terminated it succeeds
\* and starts one.
C2_Exclusive ==
    schedResult.op = "ExecuteSequence" =>
        /\ schedResult.preRunning => (schedResult.err /\ schedResult.started = 0)
        /\ schedResult.preDone => (~schedResult.err /\ schedResult.started # 0)
        /\ schedResult.started # 0 =>
               (Allocated(schedResult.started) /\ seqs[schedResult.started].ID = schedResult.id)

\* a second execution of an id was rejected while the id, restarted after its
\* first task had finished, was running again
C2_Witness ==
    /\ schedResult.op = "ExecuteSequence"
    /\ schedResult.preRunning
    /\ schedResult.err
    /\ task[1].pc = "done"
    /\ seqs[2].ID = seqs[1].ID
    /\ seqs[2].Running

\* C3: once StopSequence has closed the stop channel of a looping sequence, its
\* task terminates, whatever its command list and delays.
C3_StopTerminates ==
    \A o \in Objs :
        (seqs[o].Loop /\ seqs[o].stopChan = "closed" /\ ~ctxDone) ~>
            (task[o].pc = "done" \/ panicked)

\* C4: no two commands of the same sequence id are in flight at the same time.
C4_OneInFlight ==
    \A o1, o2 \in Objs :
        (o1 # o2 /\ seqs[o1].ID = seqs[o2].ID /\ task[o1].pc = "rest") =>
            task[o2].pc # "rest"

\* C18: StopSequence on a registered id never faults and returns no error,
\* whether the sequence is running, was stopped before or has finished; on an
\* entry that is not running it changes nothing.
C18_StopIdempotent ==
    [][\A id \in SeqIds :
          (Registered(id) /\ StopSequence(id)) =>
              /\ ~panicked'
              /\ ~schedResult'.err
              /\ ~Entry(id).Running => seqs' = seqs]_vars

\* C19: when executeCommandSync has returned an error for a command of a
\* sequence, the task has logged it, and a task that ends without a stop
\* signal has gone on to the last command of its list.
C19_ErrorLoggedNotFatal ==
    \A o \in Objs :
        task[o].failed =>
            /\ task[o].logged
            /\ (task[o].pc = "done" /\ ~Signalled(o)) =>
                   task[o].last = Len(seqs[o].Commands)

\* C20: once the stop channel of a sequence is closed or the scheduler context
\* is cancelled, the task of the sequence terminates and leaves its Sequence
\* marked not running.
C20_SignalsHonored ==
    \A o \in Objs :
        (task[o].pc # "none" /\ Signalled(o)) ~>
            ((task[o].pc = "done" /\ ~seqs[o].Running) \/ panicked)

EvInit == NewScheduler /\ InitEventManager /\ NewSceneCache /\ NoBatchYet /\ NoStreamers
             /\ NoEffectYet /\ NoGroupEffectYet /\ NoCommandYet /\ NoSessionYet
             /\ NoMembersYet
             /\ NoGroupsYet
             /\ NoRequestYet
             /\ NoSnapshotYet

EventSpec == EvInit /\ [][EvNext]_vars

\* every goroutine that can take a step eventually takes one
FairEvents ==
    /\ EventSpec
    /\ \A s \in Streams :
          /\ WF_vars(connect(s))
          /\ WF_vars(FilterRecv(s) \/ FilterSend(s))
          /\ WF_vars(processEvents(s))

(***************************************************************************)
(* Event stream claims                                                     *)
(***************************************************************************)
\* no event is in a channel or in the hands of a goroutine
EvQuiescent ==
    \A s \in Streams :
        /\ es[s].events = <<>>
        /\ filt[s].out = <<>>
        /\ filt[s].held = NoEvent
        /\ conn[s].cur = NoEvent

NotDropped(e) == e.id \notin dropped

\* what the ring buffer holds when every received event that was not
\* discarded on overflow has been stored
AllStored == LastN(SelectSeq(received, NotDropped), maxEvents)

\* C5: whatever filter the stream was started with, every event received from
\* the bridge is stored in the ring buffer: once all events in flight have been
\* consumed, get_recent_events(type="button") returns the received button events.
C5_BufferIgnoresFilter ==
    (EvQuiescent /\ ~evPanicked) =>
        HandleGetRecentEvents(DefaultLimit, "button") =
            GetRecent(AllStored, Len(AllStored), DefaultLimit, "button")

\* C6: the event processEvent is called with is never the one that is lost:
\* on a full channel only an older buffered event is discarded.
C6_NewEventEnqueued == arrived > 0 => arrived \notin dropped

\* C7: a connection that follows one ended by a read error or by EOF is only
\* opened after the 5-second wait.
C7_WaitBeforeReconnect ==
    \A s \in Streams :
        (conn[s].pc = "reading" /\ conn[s].ended \in {"error", "eof"}) => conn[s].waited

\* Stops and restarts of the consumer while the bridge delivers no event:
\* every start_event_stream and stop_event_stream call, the connect goroutine
\* of every stream opening its connection, reading and returning, and the
\* processEvents goroutine of every start.
RestartNext ==
    \/ HandleStartEventStream({})
    \/ HandleStopEventStream
    \/ \E s \in Streams : ConnLoop(s) \/ ReadAfterClose(s) \/ ConnSendErr(s)
                            \/ ConnWait(s) \/ ConnExit(s)
    \/ \E p \in Streams : processEvents(p)

RestartSpec == EvInit /\ [][RestartNext]_vars

\* the connect goroutine of s holds an open response of the event endpoint
LiveConnection(s) == conn[s].pc \in {"reading", "send", "drop", "resend"}

\* C16: at any time at most one connection to the event endpoint of the bridge
\* is open, whatever start_event_stream and stop_event_stream calls were made.
C16_OneLiveConnection ==
    Cardinality({s \in Streams : LiveConnection(s)}) <= 1

\* C17: once stop_event_stream has closed a stream, the connect goroutine of
\* the stream returns (its connection is closed and it reconnects no more)
\* and the process is still there to answer get_recent_events.
C17_StopCloses ==
    \A s \in Streams :
        es[s].done ~> (conn[s].pc = "done" /\ ~evPanicked)

\* The ring buffer on its own: processEvents hands storeEvent whatever event
\* its channel delivers (part_009:229-233), so every sequence of events is
\* stored here, whichever stream, filter and interleaving produced it.
StoreDelivered(ty) ==
    /\ Len(stored) < MaxStored
    /\ recentEvents' = storeEvent(recentEvents, [id |-> Len(stored) + 1, Type |-> ty])
    /\ stored' = Append(stored, [id |-> Len(stored) + 1, Type |-> ty])
    /\ UNCHANGED <<streaming, emStream, es, conn, filt, proc, arrived, received,
                   dropped, evPanicked>>
    /\ UNCHANGED outsideEvents

BufferNext == \E ty \in EventTypes : StoreDelivered(ty)

BufferInit == EvInit

BufferSpec == BufferInit /\ [][BufferNext]_vars

BatchInit == NewScheduler /\ InitEventManager /\ NewSceneCache /\ NoBatchYet /\ NoStreamers
             /\ NoEffectYet /\ NoGroupEffectYet /\ NoCommandYet /\ NoSessionYet
             /\ NoMembersYet
             /\ NoGroupsYet
             /\ NoRequestYet
             /\ NoSnapshotYet

BatchSpec == BatchInit /\ [][BatchNext]_vars

CacheInit == NewScheduler /\ InitEventManager /\ NewSceneCache /\ NoBatchYet /\ NoStreamers
             /\ NoEffectYet /\ NoGroupEffectYet /\ NoCommandYet /\ NoSessionYet
             /\ NoMembersYet
             /\ NoGroupsYet
             /\ NoRequestYet
             /\ NoSnapshotYet

CacheSpec == CacheInit /\ [][CacheNext]_vars

(***************************************************************************)
(* Batch executor claims                                                   *)
(***************************************************************************)
\* C8: an async batch is detached from the context of the tool call that
\* started it: when the batch has ended, every one of its commands has been
\* dispatched, also if the caller's context was cancelled on the way.
C8_AsyncDetached ==
    (batch.mode = "async" /\ batch.pc \in {"done", "cancelled"}) =>
        Len(batch.results) = Len(batch.commands)

\* a command no bridge answer can make succeed
MustFail(cmd) == cmd = CmdBri150

\* C9: the result array a sync batch returns has one entry per command, in
\* input order; a command that fails has its own entry marked failed and
\* every entry reports the outcome of its own command.
C9_SyncResults ==
    (batch.mode = "sync" /\ batch.pc = "done") =>
        /\ Len(batch.results) = Len(batch.commands)
        /\ \A k \in 1..Len(batch.results) :
              /\ batch.results[k].index = k
              /\ batch.results[k].Success <=> (batch.answers[k] = "ok")
              /\ MustFail(batch.commands[k]) => ~batch.results[k].Success
        /\ batch.summary = <<CountOf(batch.results, TRUE), CountOf(batch.results, FALSE)>>

\* a sync batch has returned whose first command failed and whose second
\* command succeeded
C9_Witness ==
    /\ batch.mode = "sync"
    /\ batch.pc = "done"
    /\ Len(batch.commands) = 2
    /\ MustFail(batch.commands[1])
    /\ ~batch.results[1].Success
    /\ batch.results[2].Success

\* C22: while and after a batch given with cache_name runs, from before its
\* first step to its end, the scene cache holds under that name the command
\* list and the delay of the batch, whatever its steps did and however it
\* ended.
C22_CachedBeforeDispatch ==
    batch.cache # "" =>
        /\ Lookup(scenes, batch.cache) # 0
        /\ cached[scenes[batch.cache]].Commands = batch.commands
        /\ cached[scenes[batch.cache]].DelayMs = batch.delayMs

\* a cached async batch was cancelled after its first command failed: a step
\* was dispatched and refused, the second was never dispatched
C22_Witness ==
    /\ batch.cache = "go"
    /\ batch.mode = "async"
    /\ batch.pc = "cancelled"
    /\ Len(batch.commands) = 2
    /\ Len(batch.results) = 1
    /\ ~batch.results[1].Success
    /\ scenes["go"] # 0

\* C23: an async batch records the failure of a step and goes on: its steps
\* are taken one at a time in input order, each once, and a batch in which a
\* step failed has ended only when every step of the list has been taken.
C23_AsyncFailureNoAbort ==
    batch.mode = "async" =>
        /\ \A k \in 1..Len(batch.results) : batch.results[k].index = k
        /\ (/\ batch.pc \in {"done", "cancelled"}
            /\ \E k \in 1..Len(batch.results) : ~batch.results[k].Success)
           => Len(batch.results) = Len(batch.commands)

(***************************************************************************)
(* Scene cache claims                                                      *)
(***************************************************************************)
\* the calls of GetScene(n) that have incremented and not yet returned, and
\* that began after the last save of n
Returning(n) ==
    {g \in Getters : /\ getter[g].pc \in {"rlock", "return"}
                     /\ getter[g].name = n
                     /\ ~getter[g].stale}

\* C11: the usage count of a cached scene is the number of successful gets of
\* its name since the last save of that name: a save sets it to zero, each get
\* adds one, a list leaves it as it is.
C11_UsageAccounting ==
    \A n \in SceneNames :
        scenes[n] # 0 =>
            cached[scenes[n]].UsageCount = counted[n] + Cardinality(Returning(n))

\* save, get, get, list: the list shows the scene used twice
C11_Witness ==
    /\ \A g \in Getters : getter[g].pc = "idle"
    /\ counted["go"] = 2
    /\ listing = <<[Name |-> "go", Used |-> 2]>>

\* C12: list_cached_scenes and export_scene change no usage count: a step of
\* either leaves the count of every stored scene as it was.
C12_ListExportDoNotCount ==
    [][(\/ listing' # listing
        \/ \E g \in Getters : getter[g].caller = "export_scene" /\ getter'[g] # getter[g])
       => \A n \in SceneNames :
              scenes[n] # 0 => cached'[scenes[n]].UsageCount = cached[scenes[n]].UsageCount]_vars

\* C10: the increment of a get is applied to the entry that is stored under
\* the name when the increment is made, never to an entry that has been
\* replaced or deleted since the get looked it up.
C10_IncrementsStoredEntry ==
    [][\A g \in Getters :
          (getter[g].pc = "lock" /\ getter'[g].pc = "rlock") =>
              Lookup(scenes, getter[g].name) = getter[g].scene]_vars

EntInit == NewScheduler /\ InitEventManager /\ NewSceneCache /\ NoBatchYet /\ NoStreamers
             /\ NoEffectYet /\ NoGroupEffectYet /\ NoCommandYet /\ NoSessionYet
             /\ NoMembersYet
             /\ NoGroupsYet
             /\ NoRequestYet
             /\ NoSnapshotYet

EntSpec == EntInit /\ [][EntNext]_vars

(***************************************************************************)
(* Command line claims                                                     *)
(***************************************************************************)
CliInit == NewScheduler /\ InitEventManager /\ NewSceneCache /\ NoBatchYet /\ NoStreamers
             /\ NoEffectYet /\ NoGroupEffectYet /\ NoSessionYet
             /\ NoMembersYet
             /\ NoGroupsYet
             /\ NoRequestYet
             /\ NoSnapshotYet
             /\ lights \in BridgeLights /\ cli = NoCli

CliSpec == CliInit /\ [][CliNext]_vars

\* the lights the argument names: those of that very name, letter case
\* apart, or with no such light those whose name contains it
Matching(nameOrID) ==
    IF ExactMatch(GetLights, nameOrID) # {}
    THEN ExactMatch(GetLights, nameOrID)
    ELSE {k \in 1..Len(lights) : IsPartial(GetLights[k], nameOrID)}

\* C24: a command given a name that two or more lights match ends with the
\* error that lists the id of each of them, and has made no call that
\* changes a light.
C24_AmbiguousNameRefused ==
    (/\ cli.cmd # ""
     /\ cli.got
     /\ Len(cli.arg) <= 30
     /\ Cardinality(Matching(cli.arg)) >= 2)
    => /\ cli.err = "multiple lights match"
       /\ {cli.listed[k].ID : k \in 1..Len(cli.listed)}
              = {LightID(k) : k \in Matching(cli.arg)}
       /\ cli.calls = <<>>

GroupCliInit == NewScheduler /\ InitEventManager /\ NewSceneCache /\ NoBatchYet /\ NoStreamers
             /\ NoEffectYet /\ NoGroupEffectYet /\ NoCommandYet /\ NoSessionYet
             /\ NoMembersYet
             /\ NoSnapshotYet
             /\ NoRequestYet
             /\ groups \in BridgeGroups

GroupCliSpec == GroupCliInit /\ [][GroupCliNext]_vars

\* the rooms and zones of that very name, letter case apart, that have a
\* grouped light
Named(nameOrID) ==
    {g \in {groups.rooms[k] : k \in 1..Len(groups.rooms)}
              \cup {groups.zones[k] : k \in 1..Len(groups.zones)} :
        EqualFold(g.Name, nameOrID) /\ GroupedLight(g) # <<>>}

\* C34: a group command given the name of exactly one room or zone calls the
\* client with the id of the grouped light of that room or zone; and no
\* group command given a name calls the client with the id of a room or of
\* a zone.
C34_GroupedLightOfRoomOrZone ==
    (cli.cmd # "" /\ cli.got /\ Len(cli.arg) <= 30) =>
        /\ \A k \in 1..Len(cli.calls) :
              /\ \A j \in 1..Len(groups.rooms) : cli.calls[k].target # groups.rooms[j].ID
              /\ \A j \in 1..Len(groups.zones) : cli.calls[k].target # groups.zones[j].ID
        /\ \A g \in Named(cli.arg) :
              Cardinality(Named(cli.arg)) = 1 =>
                  (Len(cli.calls) = 1 /\ cli.calls[1].target = GroupedLight(g))

(***************************************************************************)
(* Effect and setter claims                                                *)
(***************************************************************************)
EffectInit == NewScheduler /\ InitEventManager /\ NewSceneCache /\ NoBatchYet /\ NoStreamers
             /\ NoEffectYet /\ NoGroupEffectYet /\ NoCommandYet /\ NoSessionYet
             /\ NoMembersYet
             /\ NoGroupsYet
             /\ NoRequestYet
             /\ NoSnapshotYet

EffectSpec == EffectInit /\ [][EffectNext]_vars

\* C21: no brightness outside 0..100 is ever handed to the client, whichever
\* tool, batch command or sequence command asked for it.
C21_BrightnessInRange ==
    \A k \in 1..Len(wire) :
        wire[k].op \in {"SetLightBrightness", "SetGroupBrightness"} =>
            (wire[k].num >= 0 /\ wire[k].num <= 100)

\* C32: every colour the client is called with is '#' and six hexadecimal
\* digits, whatever tool took the colour; and light_color, given one of the
\* twelve names in any letter case or such a hex code, sets that colour.
C32_OnlyValidColors ==
    /\ \A k \in 1..Len(wire) :
          wire[k].op \in {"SetLightColor", "SetGroupColor"} => isValidHexColor(wire[k].str)
    /\ (/\ effect.tool = "light_color"
        /\ namedColorToHex(effect.args.color) # "" \/ isValidHexColor(effect.args.color))
       => Len(wire) = 1

Brightness(n) == [op |-> "SetLightBrightness", target |-> "L", num |-> n, str |-> ""]

Colour(hex) == [op |-> "SetLightColor", target |-> "L", num |-> 0, str |-> hex]

TurnOn == [op |-> "TurnOnLight", target |-> "L", num |-> 0, str |-> ""]

TurnOff == [op |-> "TurnOffLight", target |-> "L", num |-> 0, str |-> ""]

\* C25: flash_effect with colour #FF0000, flash_count 2 and flash_duration_ms
\* 100 issues, in order: colour, wait, on, wait, off, wait, on, wait, off.
C25_FlashTwice ==
    (/\ effect.tool = "flash_effect"
     /\ effect.args.color = "#FF0000"
     /\ effect.args.count = 2
     /\ effect.args.ms = 100
     /\ effect.pc = "done") =>
        wire = <<Colour("#FF0000"), Wait(100), TurnOn, Wait(100), TurnOff,
                 Wait(100), TurnOn, Wait(100), TurnOff>>

\* C26: the alert effect issues, in order: the alert colour, the brightness
\* values 100, 20, 100, 20, 100 each after 100 ms, and after 500 ms the
\* normal colour and brightness 50; every brightness command is a
\* brightness call of the client.
C26_AlertFlutter ==
    (effect.tool = "alert_effect" /\ effect.pc = "done") =>
        wire = <<Colour(effect.args.color),
                 Wait(100), Brightness(100), Wait(100), Brightness(20),
                 Wait(100), Brightness(100), Wait(100), Brightness(20),
                 Wait(100), Brightness(100),
                 Wait(500), Colour(effect.args.other), Brightness(50)>>

GroupifyInit == NewScheduler /\ InitEventManager /\ NewSceneCache /\ NoBatchYet /\ NoStreamers
             /\ NoEffectYet /\ NoGroupEffectYet /\ NoCommandYet /\ NoSessionYet
             /\ NoMembersYet
             /\ NoGroupsYet
             /\ NoRequestYet
             /\ NoSnapshotYet

GroupifySpec == GroupifyInit /\ [][GroupifyNext]_vars

\* C27: CreateGroupEffect returns the commands of the sequence with every
\* light command made a group command of the given group and nothing else
\* changed, and leaves the sequence as it was; what is changed afterwards in
\* one of the two sequences does not show in the other.
C27_GroupifyDeepClone ==
    groupify.pc = "cloned" =>
        /\ groupify.groupWas = Rewritten(groupify.effectWas, "G")
        /\ "effect" \notin groupify.changed =>
               View(groupify.maps, groupify.effect) = groupify.effectWas
        /\ "group" \notin groupify.changed =>
               View(groupify.maps, groupify.group) = groupify.groupWas

(***************************************************************************)
(* Entertainment claims                                                    *)
(***************************************************************************)
\* C13: at most one streamer is running per configuration id, also when
\* start requests for the same id are handled concurrently.
C13_OneSessionPerConfig ==
    \A c \in ConfigIds :
        Cardinality({o \in EntObjs : streamers[o].configID = c /\ streamers[o].running}) <= 1

\* C14: the packets of one streamer carry sequence numbers that go up by one
\* modulo 256 from each packet to the next, whether the loop or SendColors
\* wrote them.
C14_SequenceByOne ==
    \A o \in EntObjs :
        \A k \in 1..(Len(packets[o]) - 1) :
            packets[o][k + 1] = (packets[o][k] + 1) % SequenceMod

SessionInit == NewScheduler /\ InitEventManager /\ NewSceneCache /\ NoBatchYet /\ NoStreamers
             /\ NoEffectYet /\ NoGroupEffectYet /\ NoCommandYet /\ NoSessionYet
             /\ NoMembersYet
             /\ NoGroupsYet
             /\ NoRequestYet
             /\ NoSnapshotYet

SessionSpec == SessionInit /\ [][SessionNext]_vars

\* C28: once SetUpdateRate(d) has been called on a running session, the tick
\* that follows the call is the last one of the old cadence: every tick after
\* it comes d after the tick before it.
C28_RateAtNextTick ==
    session.setAt >= 0 =>
        \A j \in (session.setAt + 1)..(Len(session.ticks) - 1) :
            session.ticks[j + 1] - session.ticks[j] = session.updateRate

\* C29: the packet of a SendColors call with a non-empty update list begins
\* with the bytes of "HueStream" and then 0x02 0x00, and is 16 bytes plus 7
\* bytes for each channel of the configuration long.
C29_Framing ==
    (/\ session.last.by = "send"
     /\ session.last.err = ""
     /\ session.last.updates # <<>>)
    => /\ SubSeq(session.last.packet, 1, 11) = HueStream \o <<2, 0>>
       /\ Len(session.last.packet) = 16 + 7 * Len(session.config)

\* the 16-bit number at bytes i and i + 1 of a packet, low byte first
Uint16At(packet, i) == packet[i] + 256 * packet[i + 1]

\* the entries that follow the 16 bytes of the header
Entries(packet) ==
    [k \in 1..((Len(packet) - 16) \div 8) |->
        LET at == 16 + 8 * (k - 1)
        IN  [channel |-> Uint16At(packet, at + 1),
             Red |-> Uint16At(packet, at + 3),
             Green |-> Uint16At(packet, at + 5),
             Blue |-> Uint16At(packet, at + 7)]]

\* the lights of the channels of a configuration, in order
RECURSIVE Enrolled(_, _)
Enrolled(channels, k) ==
    IF k > Len(channels) THEN <<>>
    ELSE [m \in 1..Len(channels[k].Members) |->
             [channel |-> channels[k].ChannelID, light |-> channels[k].Members[m]]]
           \o Enrolled(channels, k + 1)

\* the colours an update list gives for a light
Supplied(updates, light) ==
    {[Red |-> updates[k].Red, Green |-> updates[k].Green, Blue |-> updates[k].Blue] :
        k \in {j \in 1..Len(updates) : updates[j].LightID = light}}

\* C30: the frame of a SendColors call on a running session is sent without
\* an error and has one entry for each light of each channel of the
\* configuration, in order, and no other entry; the entry of a light that
\* the update list names carries a colour the list gives for it, the entry
\* of a light it does not name carries zero, and what the list gives for
\* other lights is in no entry.
C30_FrameEntries ==
    (session.last.by = "send" /\ session.last.err # "streamer not running") =>
        LET enrolled == Enrolled(session.config, 1)
            entries == Entries(session.last.packet)
        IN  /\ session.last.err = ""
            /\ Len(session.last.packet) = 16 + 8 * Len(entries)
            /\ Len(entries) = Len(enrolled)
            /\ \A k \in 1..Len(entries) :
                  LET colour == [Red |-> entries[k].Red, Green |-> entries[k].Green,
                                 Blue |-> entries[k].Blue]
                      given == Supplied(session.last.updates, enrolled[k].light)
                  IN  /\ entries[k].channel = enrolled[k].channel
                      /\ IF given = {}
                         THEN colour = [Red |-> 0, Green |-> 0, Blue |-> 0]
                         ELSE colour \in given

\* a frame was sent for the configuration of lights "a" and "b" from a list
\* that names "a" and the light "z" of no channel, and not "b"
C30_Witness ==
    /\ session.last.by = "send"
    /\ session.last.err = ""
    /\ Len(session.config) = 2
    /\ Len(session.last.updates) = 2
    /\ Supplied(session.last.updates, "a") # {}
    /\ Supplied(session.last.updates, "z") # {}
    /\ Len(Entries(session.last.packet)) = 2

(***************************************************************************)
(* GetSequences claims                                                     *)
(***************************************************************************)
ListInit == NewScheduler /\ InitEventManager /\ NewSceneCache /\ NoBatchYet /\ NoStreamers
             /\ NoEffectYet /\ NoGroupEffectYet /\ NoCommandYet /\ NoSessionYet
             /\ NoMembersYet
             /\ NoGroupsYet
             /\ NoRequestYet
             /\ NoSnapshotYet

ListSpec == ListInit /\ [][ListNext]_vars

\* what the holder of the snapshot reads in it: for each id the fields of
\* the sequence its entry leads to
Shown(snap, objects) ==
    [i \in SeqIds |-> IF snap.result[i] = 0 THEN NoSeq ELSE objects[snap.result[i]]]

\* C31: what a snapshot shows stays as it is through every step that is not
\* a change its holder makes to it, and a change its holder makes to it
\* changes neither the registry nor a sequence.
C31_SnapshotIsCopy ==
    [][/\ (snapshot.taken /\ snapshot' = snapshot)
           => Shown(snapshot, seqs)' = Shown(snapshot, seqs)
       /\ (snapshot.taken /\ snapshot'.writes # snapshot.writes)
           => (seqs' = seqs /\ sequences' = sequences)]_vars

(***************************************************************************)
(* Bridge client claims                                                    *)
(***************************************************************************)
ClientInit == NewScheduler /\ InitEventManager /\ NewSceneCache /\ NoBatchYet /\ NoStreamers
             /\ NoEffectYet /\ NoGroupEffectYet /\ NoCommandYet /\ NoSessionYet
             /\ NoMembersYet
             /\ NoGroupsYet
             /\ NoSnapshotYet
             /\ NoRequestYet

ClientSpec == ClientInit /\ [][ClientNext]_vars

\* C33: an operation of the client whose response has a status of 400 or
\* more returns the error "HTTP <status>: <body>", and one whose response has
\* a lower status and a non-empty errors array returns the API error with
\* the first description of the array; neither returns success.
C33_FailuresReported ==
    \A k \in 1..Len(requests) :
        LET q == requests[k]
        IN  /\ q.resp.status >= 400 =>
                  q.err = [kind |-> "HTTP", code |-> q.resp.status, text |-> q.resp.body]
            /\ (q.resp.status < 400 /\ q.resp.body.errors # <<>>) =>
                  q.err = [kind |-> "API error", code |-> 0, text |-> q.resp.body.errors[1]]

\* C35: no interleaving of Stop, StopSequence and ExecuteSequence closes the
\* stop channel of one sequence twice: a StopSequence on a registered id after
\* a Stop, and a second Stop, return without a panic.
C35_StopSignalRaisedOnce ==
    [][(Stop \/ \E id \in SeqIds : Registered(id) /\ StopSequence(id)) =>
          (~panicked' /\ schedResult'.op \in {"Stop", "StopSequence"})]_vars

\* C36: whatever the interleaving of stop_event_stream with the arrival of
\* events, the processEvents goroutine never panics: it never calls a method
\* of the stream through the reference stop_event_stream has set to nil.
C36_ConsumerSurvivesStop == ~evPanicked

\* a goroutine of stream s is still there: connect has not returned (it holds
\* a connection, or waits to reconnect), or processEvents has not returned
ConsumerAlive(s) ==
    \/ conn[s].pc \notin {"none", "done"}
    \/ proc[s].pc \notin {"none", "done"}

\* C37: whenever get_event_stream_status reports the stream as running, the
\* stream the manager holds has a live consumer; once connect and
\* processEvents have returned for a reason other than stop_event_stream,
\* streaming is false, so that start_event_stream starts a new consumer.
C37_StatusAgreesWithConsumer ==
    streaming => (emStream # 0 /\ ConsumerAlive(emStream))

\* C38: when Start has failed after the bridge accepted StartEntertainment,
\* the bridge is not left in streaming mode with no registered session: the
\* start has been undone, or the streamer is in activeStreamers, where
\* stop_streaming finds it.
C38_FailedStartLeavesNoSession ==
    \A o \in EntObjs :
        (streamers[o].start = "failed" /\ streamers[o].bridge = "active") =>
            activeStreamers[streamers[o].configID] = o

\* the strobe sequence is the colour followed by whole on/off pairs
WellFormedStrobe(commands) ==
    /\ Len(commands) % 2 = 1
    /\ commands[1].Action = "color"
    /\ \A k \in 2..Len(commands) :
          commands[k].Action = (IF k % 2 = 0 THEN "on" ELSE "off")

\* C39: no effect handler panics on a degenerate number: a strobe rate of 0, a
\* duration of 0 or a count of 0 gives an error or a well-formed sequence,
\* which may have no on/off pair at all.
C39_NoFaultOnDegenerateInput ==
    /\ effect.pc # "panic"
    /\ effect.tool = "strobe_effect" => WellFormedStrobe(effect.Commands)
    /\ effect.tool = "flash_effect" => Len(effect.Commands) = 3 * effect.args.count

MemberInit == NewScheduler /\ InitEventManager /\ NewSceneCache /\ NoBatchYet /\ NoStreamers
           /\ NoEffectYet /\ NoGroupEffectYet /\ NoCommandYet /\ NoSessionYet
           /\ NoSnapshotYet
           /\ NoRequestYet
           /\ NoGroupsYet
           /\ membership \in {[NoMembers EXCEPT !.room = r, !.zone = z] :
                              r \in BridgeChildren({ResourceID("d", i) : i \in 1..MaxLights},
                                                   "device"),
                              z \in BridgeChildren(MemberLights, "light")}

MemberSpec == MemberInit /\ [][MemberNext]_vars

\* the light is a child of the group the call names: its device is in the
\* room, or the light is in the zone
AlreadyMember(m) ==
    \/ m.last.to = "room" /\ HasChild(m.last.before, DeviceOf(m.last.lightID), "device")
    \/ m.last.to = "zone" /\ HasChild(m.last.before, m.last.lightID, "light")

\* C40: AddLightToGroup of a light that is a member of the group already
\* leaves the children of the room or zone as they were, and no update it
\* sends names a child twice.
C40_AddIsIdempotent ==
    /\ NoDuplicate(membership.last.put)
    /\ AlreadyMember(membership) =>
          /\ membership.last.err = ""
          /\ membership.last.to = "room" => membership.room = membership.last.before
          /\ membership.last.to = "zone" => membership.zone = membership.last.before

====
